---- MODULE Spec2Model ----
(***************************************************************************)
(* The tree-walking runtime of the lox interpreter as a state machine.     *)
(*                                                                         *)
(* Runtime::run and everything it calls are recursive Rust functions.  The *)
(* model makes the recursion explicit: `stack` holds one frame per Rust    *)
(* call that is waiting for the result of a call it made, and `ctrl` holds *)
(* what is being executed or returned right now.  Environments are Rc      *)
(* nodes; the model keeps them in the arena `envs`, and an Rc<Environment> *)
(* is the index of its node, so that two holders of the same Rc see the    *)
(* same bindings.                                                          *)
(***************************************************************************)
EXTENDS Integers, Sequences, FiniteSets, TLC

VARIABLES program, envs, environment, stack, ctrl, output, result

\* The parser: its token vector, Parser::current, the frames of the parsing
\* functions that wait for a call to return, where the parser is and what
\* run() has returned.
VARIABLES tokens, cursor, calls, pc, outcome

parser == <<tokens, cursor, calls, pc, outcome>>

vars == <<program, envs, environment, stack, ctrl, output, result, parser>>

\* Largest number of Environment nodes one run may allocate.
MaxEnvs == 8

(***************************************************************************)
(* RuntimeValue                                                            *)
(***************************************************************************)
RECURSIVE Gcd(_, _)
Gcd(a, b) == IF b = 0 THEN a ELSE Gcd(b, a % b)

Abs(n) == IF n < 0 THEN -n ELSE n

\* An f64 is a reduced fraction num/den with den > 0.
F64(n, d) ==
    LET s == IF d < 0 THEN -1 ELSE 1
        g == Gcd(Abs(n), Abs(d))
    IN  [num |-> (s * n) \div g, den |-> (s * d) \div g]

fract_is_zero(f) == f.den = 1

Integer(n) == [t |-> "Integer", i |-> n]
Float(f) == [t |-> "Float", f |-> f]
String(s) == [t |-> "String", s |-> s]
Boolean(b) == [t |-> "Boolean", b |-> b]
Nil == [t |-> "Nil"]
Callable(parameters, execute, closure) ==
    [t |-> "Callable", parameters |-> parameters, execute |-> execute,
     closure |-> closure]

\* `*lhs as f64`
as_f64(n) == F64(n, 1)

f64_add(a, b) == F64(a.num * b.den + b.num * a.den, a.den * b.den)
f64_sub(a, b) == F64(a.num * b.den - b.num * a.den, a.den * b.den)
f64_mul(a, b) == F64(a.num * b.num, a.den * b.den)
\* only used with b # 0
f64_div(a, b) == F64(a.num * b.den, a.den * b.num)
f64_eq(a, b) == a.num * b.den = b.num * a.den
f64_lt(a, b) == a.num * b.den < b.num * a.den

\* Option<T>
Some(v) == [some |-> TRUE, v |-> v]
None == [some |-> FALSE]

DigitStr(d) ==
    CASE d = 0 -> "0" [] d = 1 -> "1" [] d = 2 -> "2" [] d = 3 -> "3"
      [] d = 4 -> "4" [] d = 5 -> "5" [] d = 6 -> "6" [] d = 7 -> "7"
      [] d = 8 -> "8" [] OTHER -> "9"

RECURSIVE NatStr(_)
NatStr(n) == IF n < 10 THEN DigitStr(n) ELSE NatStr(n \div 10) \o DigitStr(n % 10)

\* `{rhs}` of an i64
i64_display(n) == IF n < 0 THEN "-" \o NatStr(-n) ELSE NatStr(n)

\* `{rhs}` of an f64, for the fractions whose decimal expansion has at most
\* one digit after the point (the only ones the programs below produce)
f64_display(f) ==
    LET tenths == (Abs(f.num) * 10) \div f.den
        sign == IF f.num < 0 THEN "-" ELSE ""
    IN  IF f.den = 1 THEN i64_display(f.num)
        ELSE sign \o NatStr(tenths \div 10) \o "." \o DigitStr(tenths % 10)

\* impl Not for &RuntimeValue
Not(v) ==
    CASE v.t = "Integer" -> Some(Boolean(~(v.i # 0)))
      [] v.t = "Float" -> Some(Boolean(~(v.f.num # 0)))
      [] v.t = "Boolean" -> Some(Boolean(~v.b))
      [] v.t = "String" -> Some(Boolean(TRUE))
      [] v.t = "Nil" -> Some(Boolean(FALSE))
      [] OTHER -> None

\* impl Neg for &RuntimeValue
Neg(v) ==
    CASE v.t = "Integer" -> Some(Integer(-v.i))
      [] v.t = "Float" -> Some(Float(F64(-v.f.num, v.f.den)))
      [] OTHER -> None

\* impl Add for &RuntimeValue
Add(lhs, rhs) ==
    CASE lhs.t = "Integer" /\ rhs.t = "Integer" -> Some(Integer(lhs.i + rhs.i))
      [] lhs.t = "Integer" /\ rhs.t = "Float" -> Some(Float(f64_add(as_f64(lhs.i), rhs.f)))
      [] lhs.t = "Float" /\ rhs.t = "Integer" -> Some(Float(f64_add(lhs.f, as_f64(rhs.i))))
      [] lhs.t = "Float" /\ rhs.t = "Float" -> Some(Float(f64_add(lhs.f, rhs.f)))
      [] lhs.t = "String" /\ rhs.t = "String" -> Some(String(lhs.s \o rhs.s))
      [] lhs.t = "String" /\ rhs.t = "Integer" -> Some(String(lhs.s \o i64_display(rhs.i)))
      [] lhs.t = "String" /\ rhs.t = "Float" -> Some(String(lhs.s \o f64_display(rhs.f)))
      [] OTHER -> None

\* impl Sub for &RuntimeValue
Sub(lhs, rhs) ==
    CASE lhs.t = "Integer" /\ rhs.t = "Integer" -> Some(Integer(lhs.i - rhs.i))
      [] lhs.t = "Integer" /\ rhs.t = "Float" -> Some(Float(f64_sub(as_f64(lhs.i), rhs.f)))
      [] lhs.t = "Float" /\ rhs.t = "Integer" -> Some(Float(f64_sub(lhs.f, as_f64(rhs.i))))
      [] lhs.t = "Float" /\ rhs.t = "Float" -> Some(Float(f64_sub(lhs.f, rhs.f)))
      [] OTHER -> None

\* impl Mul for &RuntimeValue
Mul(lhs, rhs) ==
    CASE lhs.t = "Integer" /\ rhs.t = "Integer" -> Some(Integer(lhs.i * rhs.i))
      [] lhs.t = "Integer" /\ rhs.t = "Float" -> Some(Float(f64_mul(as_f64(lhs.i), rhs.f)))
      [] lhs.t = "Float" /\ rhs.t = "Integer" -> Some(Float(f64_mul(lhs.f, as_f64(rhs.i))))
      [] lhs.t = "Float" /\ rhs.t = "Float" -> Some(Float(f64_mul(lhs.f, rhs.f)))
      [] OTHER -> None

\* impl Div for &RuntimeValue; Runtime::binary never calls it with a zero rhs
Div(lhs, rhs) ==
    CASE lhs.t = "Integer" /\ rhs.t = "Integer" ->
            LET r == f64_div(as_f64(lhs.i), as_f64(rhs.i))
            IN  Some(IF fract_is_zero(r) THEN Integer(r.num) ELSE Float(r))
      [] lhs.t = "Integer" /\ rhs.t = "Float" -> Some(Float(f64_div(as_f64(lhs.i), rhs.f)))
      [] lhs.t = "Float" /\ rhs.t = "Integer" -> Some(Float(f64_div(lhs.f, as_f64(rhs.i))))
      [] lhs.t = "Float" /\ rhs.t = "Float" -> Some(Float(f64_div(lhs.f, rhs.f)))
      [] OTHER -> None

\* eq for which Nil equals Nil
eq_of_nil(lhs, rhs) ==
    CASE lhs.t = "Integer" /\ rhs.t = "Integer" -> lhs.i = rhs.i
      [] lhs.t = "Integer" /\ rhs.t = "Float" -> f64_eq(as_f64(lhs.i), rhs.f)
      [] lhs.t = "Float" /\ rhs.t = "Integer" -> f64_eq(lhs.f, as_f64(rhs.i))
      [] lhs.t = "Float" /\ rhs.t = "Float" -> f64_eq(lhs.f, rhs.f)
      [] lhs.t = "String" /\ rhs.t = "String" -> lhs.s = rhs.s
      [] lhs.t = "Boolean" /\ rhs.t = "Boolean" -> lhs.b = rhs.b
      [] lhs.t = "Nil" /\ rhs.t = "Nil" -> TRUE
      [] OTHER -> FALSE

\* impl PartialEq for RuntimeValue
eq(lhs, rhs) ==
    CASE lhs.t = "Integer" /\ rhs.t = "Integer" -> lhs.i = rhs.i
      [] lhs.t = "Integer" /\ rhs.t = "Float" -> f64_eq(as_f64(lhs.i), rhs.f)
      [] lhs.t = "Float" /\ rhs.t = "Integer" -> f64_eq(lhs.f, as_f64(rhs.i))
      [] lhs.t = "Float" /\ rhs.t = "Float" -> f64_eq(lhs.f, rhs.f)
      [] lhs.t = "String" /\ rhs.t = "String" -> lhs.s = rhs.s
      [] lhs.t = "Boolean" /\ rhs.t = "Boolean" -> lhs.b = rhs.b
      [] OTHER -> FALSE

\* impl PartialOrd for RuntimeValue: Some("Less" | "Equal" | "Greater") or None
ordering(a, b) == IF f64_lt(a, b) THEN "Less" ELSE IF f64_eq(a, b) THEN "Equal" ELSE "Greater"

partial_cmp(lhs, rhs) ==
    CASE lhs.t = "Integer" /\ rhs.t = "Integer" -> Some(ordering(as_f64(lhs.i), as_f64(rhs.i)))
      [] lhs.t = "Integer" /\ rhs.t = "Float" -> Some(ordering(as_f64(lhs.i), rhs.f))
      [] lhs.t = "Float" /\ rhs.t = "Integer" -> Some(ordering(lhs.f, as_f64(rhs.i)))
      [] lhs.t = "Float" /\ rhs.t = "Float" -> Some(ordering(lhs.f, rhs.f))
      [] OTHER -> None

\* The conversion of a value to bool that loop_stmt and binary call as
\* `.into()`: the truthiness table.  The table has no row for a Callable; no
\* program below converts one.
into_bool(v) ==
    CASE v.t = "Boolean" -> v.b
      [] v.t = "Integer" -> v.i # 0
      [] v.t = "Float" -> v.f.num # 0
      [] v.t = "String" -> TRUE
      [] OTHER -> FALSE

(***************************************************************************)
(* Environment: a node of the arena.  `store` is the arena, `self` the     *)
(* index of the node the method is called on.                              *)
(***************************************************************************)
EmptyMap == [n \in {} |-> Nil]

contains_key(values, identifier) == identifier \in DOMAIN values

insert(values, identifier, value) ==
    [n \in DOMAIN values \cup {identifier} |->
        IF n = identifier THEN value ELSE values[n]]

\* Environment::new
Environment_new == [values |-> EmptyMap, enclosing |-> None]

\* Environment::with_enclosing
with_enclosing(enclosing) == [values |-> EmptyMap, enclosing |-> Some(enclosing)]

\* RuntimeErrorKind
VariableAlreadyDefined(name) == [kind |-> "VariableAlreadyDefined", name |-> name]
VariableNotDefined(name) == [kind |-> "VariableNotDefined", name |-> name]
InvalidArgumentCount(got, expected) ==
    [kind |-> "InvalidArgumentCount", got |-> got, expected |-> expected]
ExpectedNumberOperand == [kind |-> "ExpectedNumberOperand"]
ZeroDivision == [kind |-> "ZeroDivision"]
ContinueNotWithinLoop == [kind |-> "ContinueNotWithinLoop"]
BreakNotWithinLoop == [kind |-> "BreakNotWithinLoop"]
ReturnNotWithinFunction == [kind |-> "ReturnNotWithinFunction"]
ExpressionNotCallable == [kind |-> "ExpressionNotCallable"]

\* RuntimeResult<T>; a method that mutates the arena also returns the arena
Ok(store, v) == [ok |-> TRUE, store |-> store, v |-> v]
Err(store, e) == [ok |-> FALSE, store |-> store, err |-> e]

\* define without the contains_key test: HashMap::insert replaces the binding
define_overwrites(store, self, identifier, value) ==
    Ok([store EXCEPT ![self].values = insert(@, identifier, value)], Nil)

\* Environment::define
define(store, self, identifier, value) ==
    IF contains_key(store[self].values, identifier)
    THEN Err(store, VariableAlreadyDefined(identifier))
    ELSE Ok([store EXCEPT ![self].values = insert(@, identifier, value)], Nil)

\* get that asks the enclosing environment first
RECURSIVE get_outermost(_, _, _)
get_outermost(store, self, identifier) ==
    LET outer == IF store[self].enclosing.some
                 THEN get_outermost(store, store[self].enclosing.v, identifier)
                 ELSE None
    IN  IF outer.some THEN outer
        ELSE IF contains_key(store[self].values, identifier)
             THEN Some(store[self].values[identifier])
             ELSE None

\* Environment::get
RECURSIVE get(_, _, _)
get(store, self, identifier) ==
    LET value == IF contains_key(store[self].values, identifier)
                 THEN Some(store[self].values[identifier])
                 ELSE None
    IN  IF ~value.some /\ store[self].enclosing.some
        THEN get(store, store[self].enclosing.v, identifier)
        ELSE value

\* assign that inserts into the environment it is called on
assign_here(store, self, identifier, value) ==
    Ok([store EXCEPT ![self].values = insert(@, identifier, value)], Nil)

\* Environment::assign
RECURSIVE assign(_, _, _, _)
assign(store, self, identifier, value) ==
    IF ~contains_key(store[self].values, identifier)
    THEN IF store[self].enclosing.some
         THEN assign(store, store[self].enclosing.v, identifier, value)
         ELSE Err(store, VariableNotDefined(identifier))
    ELSE Ok([store EXCEPT ![self].values = insert(@, identifier, value)], Nil)

\* RuntimeSignal
LoopBreak == [sig |-> "LoopBreak"]
LoopContinue == [sig |-> "LoopContinue"]
FunctionReturn(value) == [sig |-> "FunctionReturn", value |-> value]

(***************************************************************************)
(* The AST (crates/ast): Literal, Expression, Statement.  Operators are    *)
(* the names of the Operator enum.                                         *)
(***************************************************************************)
LitNumber(n, d) == [lit |-> "Number", f |-> F64(n, d)]
LitString(s) == [lit |-> "String", s |-> s]
LitBoolean(b) == [lit |-> "Boolean", b |-> b]
LitNil == [lit |-> "Nil"]

Binary(left, operator, right) ==
    [e |-> "Binary", left |-> left, operator |-> operator, right |-> right]
Unary(operator, right) == [e |-> "Unary", operator |-> operator, right |-> right]
Literal(literal) == [e |-> "Literal", literal |-> literal]
Grouping(expr) == [e |-> "Grouping", expr |-> expr]
Conditional(condition, then, alternative) ==
    [e |-> "Conditional", condition |-> condition, then |-> then,
     alternative |-> alternative]
Identifier(name) == [e |-> "Identifier", name |-> name]
Assignment(identifier, expression) ==
    [e |-> "Assignment", identifier |-> identifier, expression |-> expression]
FunctionInvokation(callee, arguments) ==
    [e |-> "FunctionInvokation", callee |-> callee, arguments |-> arguments]

PrintStmt(expression) == [s |-> "Print", expression |-> expression]
ExpressionStmt(expression) == [s |-> "Expression", expression |-> expression]
VariableDeclaration(identifier, expression) ==
    [s |-> "VariableDeclaration", identifier |-> identifier,
     expression |-> expression]
FunctionDeclaration(identifier, parameters, execute) ==
    [s |-> "FunctionDeclaration", identifier |-> identifier,
     parameters |-> parameters, execute |-> execute]
Block(statements) == [s |-> "Block", statements |-> statements]
ConditionalStmt(condition, then, alternative) ==
    [s |-> "Conditional", condition |-> condition, then |-> then,
     alternative |-> alternative]
While(condition, block) == [s |-> "While", condition |-> condition, block |-> block]
Break == [s |-> "Break"]
Continue == [s |-> "Continue"]
Return(expression) == [s |-> "Return", expression |-> expression]

(***************************************************************************)
(* Runtime: the machine.                                                   *)
(*   ctrl.m = "new"        Runtime::new() returned, run not yet called     *)
(*            "_run"       at the head of the for loop of _run             *)
(*            "statement"  entering statement(stmt)                        *)
(*            "evaluate"   entering evaluate(expr)                         *)
(*            "arguments"  at the head of the for loop of                  *)
(*                         function_invokation                             *)
(*            "value"      evaluate returns Ok(value)                      *)
(*            "signal"     statement, block or _run returns Ok(signal)     *)
(*            "done"       run has returned; `result` is what it returned  *)
(* An Err(..) is propagated by `?` through every caller up to run, none of *)
(* which runs any code on the way: the model drops the whole stack in one  *)
(* step.  A panic (unwrap of None, unreachable!) ends the process.         *)
(***************************************************************************)
Top == stack[Len(stack)]
Pop == SubSeq(stack, 1, Len(stack) - 1)
Push(frame) == Append(stack, frame)
Returns(m, f) == ctrl.m = m /\ stack # <<>> /\ Top.f = f

Running == [state |-> "running"]
RunOk == [state |-> "Ok"]
RunErr(e) == [state |-> "Err", error |-> e]
Panicked == [state |-> "panic"]

\* an error whose every caller puts the environment it saved back: the
\* outermost saved one is current at the end
propagated_restores(current, frames) ==
    LET saved == {k \in 1..Len(frames) : "prev_environment" \in DOMAIN frames[k]}
    IN  IF saved = {} THEN current
        ELSE frames[CHOOSE k \in saved : \A j \in saved : k <= j].prev_environment

\* Runtime::block, line 144, and Runtime::function_invokation, line 236: the
\* `?` returns the Err before the line that puts prev_environment back, so
\* the environment that is current when the error reaches run is the one
\* that was current where it was made; `frames` are the callers it passes
propagated(current, frames) == current

\* An Err(e) made where `current` is the current environment reaches run.
Raise(e, current) ==
    /\ result' = RunErr(e)
    /\ ctrl' = [m |-> "done"]
    /\ stack' = <<>>
    /\ environment' = propagated(current, stack)

Throw(e) == Raise(e, environment)

Panic ==
    /\ result' = Panicked
    /\ ctrl' = [m |-> "done"]
    /\ stack' = <<>>

ExecStatement(stmt) == [m |-> "statement", stmt |-> stmt]
Evaluate(expr) == [m |-> "evaluate", expr |-> expr]
ReturnValue(value) == [m |-> "value", value |-> value]
ReturnSignal(signal) == [m |-> "signal", signal |-> signal]

\* run that drops the signal of _run
run_result_ignores(signal) == RunOk

\* Runtime::run, lines 29-37: what run returns for the signal _run returned
run_result(signal) ==
    IF signal.some
    THEN RunErr(CASE signal.v.sig = "LoopBreak" -> BreakNotWithinLoop
                  [] signal.v.sig = "LoopContinue" -> ContinueNotWithinLoop
                  [] OTHER -> ReturnNotWithinFunction)
    ELSE RunOk

\* Runtime::run calls _run(program)
run ==
    /\ ctrl.m = "new"
    /\ stack' = <<[f |-> "run"]>>
    /\ ctrl' = [m |-> "_run", statements |-> program]
    /\ UNCHANGED <<parser, program, envs, environment, output, result>>

\* Runtime::run gets the signal of _run(program)
run_return ==
    /\ Returns("signal", "run")
    /\ result' = run_result(ctrl.signal)
    /\ ctrl' = [m |-> "done"]
    /\ stack' = <<>>
    /\ UNCHANGED <<parser, program, envs, environment, output>>

\* Runtime::_run: the next statement of the for loop, or Ok(None) after the
\* last one
_run ==
    /\ ctrl.m = "_run"
    /\ IF ctrl.statements = <<>>
       THEN /\ ctrl' = ReturnSignal(None)
            /\ stack' = stack
       ELSE /\ ctrl' = ExecStatement(Head(ctrl.statements))
            /\ stack' = Push([f |-> "_run", rest |-> Tail(ctrl.statements)])
    /\ UNCHANGED <<parser, program, envs, environment, output, result>>

\* _run that goes on with the next statement whatever the signal
_run_returns_never(signal) == FALSE

\* Runtime::_run, lines 42-44: what the loop does with the signal of a
\* statement: TRUE when it returns the signal at once
_run_returns(signal) == signal.some

\* Runtime::_run gets the signal of statement(stmt)
_run_signal ==
    /\ Returns("signal", "_run")
    /\ IF _run_returns(ctrl.signal)
       THEN ctrl' = ctrl
       ELSE ctrl' = [m |-> "_run", statements |-> Top.rest]
    /\ stack' = Pop
    /\ UNCHANGED <<parser, program, envs, environment, output, result>>

\* Runtime::expr_stmt
expr_stmt ==
    /\ ctrl.m = "statement" /\ ctrl.stmt.s = "Expression"
    /\ stack' = Push([f |-> "expr_stmt"])
    /\ ctrl' = Evaluate(ctrl.stmt.expression)
    /\ UNCHANGED <<parser, program, envs, environment, output, result>>

expr_stmt_done ==
    /\ Returns("value", "expr_stmt")
    /\ stack' = Pop
    /\ ctrl' = ReturnSignal(None)
    /\ UNCHANGED <<parser, program, envs, environment, output, result>>

\* `{value}`: the display form of a value.  No display form is given for a
\* Callable; no program below prints one.
display(value) ==
    CASE value.t = "Integer" -> i64_display(value.i)
      [] value.t = "Float" -> f64_display(value.f)
      [] value.t = "String" -> value.s
      [] value.t = "Boolean" -> (IF value.b THEN "true" ELSE "false")
      [] value.t = "Nil" -> "nil"
      [] OTHER -> "<callable>"

\* Runtime::print_stmt
print_stmt ==
    /\ ctrl.m = "statement" /\ ctrl.stmt.s = "Print"
    /\ stack' = Push([f |-> "print_stmt"])
    /\ ctrl' = Evaluate(ctrl.stmt.expression)
    /\ UNCHANGED <<parser, program, envs, environment, output, result>>

print_stmt_println ==
    /\ Returns("value", "print_stmt")
    /\ output' = Append(output, display(ctrl.value))
    /\ stack' = Pop
    /\ ctrl' = ReturnSignal(None)
    /\ UNCHANGED <<parser, program, envs, environment, result>>

\* Runtime::var_stmt
var_stmt ==
    /\ ctrl.m = "statement" /\ ctrl.stmt.s = "VariableDeclaration"
    /\ stack' = Push([f |-> "var_stmt", identifier |-> ctrl.stmt.identifier])
    /\ ctrl' = Evaluate(ctrl.stmt.expression)
    /\ UNCHANGED <<parser, program, envs, environment, output, result>>

var_stmt_define ==
    /\ Returns("value", "var_stmt")
    /\ LET r == define(envs, environment, Top.identifier, ctrl.value)
       IN  /\ envs' = r.store
           /\ IF r.ok
              THEN /\ stack' = Pop
                   /\ ctrl' = ReturnSignal(None)
                   /\ result' = result
                   /\ environment' = environment
              ELSE Throw(r.err)
    /\ UNCHANGED <<parser, program, output>>

\* fun_stmt that captures a copy of the current environment
fun_stmt_closure_copies(store, current) ==
    [store |-> Append(store, store[current]), closure |-> Len(store) + 1]

\* Runtime::fun_stmt, line 86: `Rc::clone(&self.environment.borrow())`, a
\* second reference to the current node; the arena is left as it is
fun_stmt_closure(store, current) == [store |-> store, closure |-> current]

\* Runtime::fun_stmt
fun_stmt ==
    /\ ctrl.m = "statement" /\ ctrl.stmt.s = "FunctionDeclaration"
    /\ LET c == fun_stmt_closure(envs, environment)
           function == Callable(ctrl.stmt.parameters,
                                ctrl.stmt.execute.statements, c.closure)
           r == define(c.store, environment, ctrl.stmt.identifier, function)
       IN  /\ envs' = r.store
           /\ IF r.ok
              THEN /\ stack' = stack
                   /\ ctrl' = ReturnSignal(None)
                   /\ result' = result
                   /\ environment' = environment
              ELSE Throw(r.err)
    /\ UNCHANGED <<parser, program, output>>

\* block that runs its statements in the environment it is entered in
block_in_place ==
    /\ ctrl.m = "statement" /\ ctrl.stmt.s = "Block"
    /\ stack' = Push([f |-> "block", prev_environment |-> environment])
    /\ ctrl' = [m |-> "_run", statements |-> ctrl.stmt.statements]
    /\ UNCHANGED <<parser, program, envs, environment, output, result>>

\* Runtime::block
block ==
    /\ ctrl.m = "statement" /\ ctrl.stmt.s = "Block"
    /\ Len(envs) < MaxEnvs
    /\ envs' = Append(envs, with_enclosing(environment))
    /\ environment' = Len(envs) + 1
    /\ stack' = Push([f |-> "block", prev_environment |-> environment])
    /\ ctrl' = [m |-> "_run", statements |-> ctrl.stmt.statements]
    /\ UNCHANGED <<parser, program, output, result>>

\* block that returns a signal at once and restores only on a plain end
block_restored_on_plain_end(prev_environment, current, signal) ==
    IF signal.some THEN current ELSE prev_environment

\* Runtime::block, line 146: the environment that is current after the
\* block, whatever signal _run returned
block_restored(prev_environment, current, signal) == prev_environment

\* Runtime::block gets the signal of _run(statements)
block_restore ==
    /\ Returns("signal", "block")
    /\ environment' = block_restored(Top.prev_environment, environment,
                                     ctrl.signal)
    /\ stack' = Pop
    /\ ctrl' = ctrl
    /\ UNCHANGED <<parser, program, envs, output, result>>

\* Runtime::conditional_stmt
conditional_stmt ==
    /\ ctrl.m = "statement" /\ ctrl.stmt.s = "Conditional"
    /\ stack' = Push([f |-> "conditional_stmt", then |-> ctrl.stmt.then,
                      alternative |-> ctrl.stmt.alternative])
    /\ ctrl' = Evaluate(ctrl.stmt.condition)
    /\ UNCHANGED <<parser, program, envs, environment, output, result>>

\* Runtime::conditional_stmt, line 126: Some(TRUE) when `then` runs,
\* Some(FALSE) when it does not, None when the unwrap of the negation panics
conditional_stmt_test(condition_result) ==
    LET negated == Not(condition_result)
    IN  IF negated.some THEN Some(~negated.v.b) ELSE None

\* Runtime::conditional_stmt, lines 126-134; the signal of the branch is
\* returned as it is, so the frame is dropped when the branch starts
conditional_stmt_branch ==
    /\ Returns("value", "conditional_stmt")
    /\ LET test == conditional_stmt_test(ctrl.value)
       IN  IF ~test.some
           THEN Panic
           ELSE /\ stack' = Pop
                /\ result' = result
                /\ ctrl' = IF test.v THEN ExecStatement(Top.then)
                           ELSE IF Top.alternative.some
                                THEN ExecStatement(Top.alternative.v)
                                ELSE ReturnSignal(None)
    /\ UNCHANGED <<parser, program, envs, environment, output>>

\* Runtime::loop_stmt
loop_stmt ==
    /\ ctrl.m = "statement" /\ ctrl.stmt.s = "While"
    /\ stack' = Push([f |-> "loop_stmt.condition",
                      condition |-> ctrl.stmt.condition,
                      block |-> ctrl.stmt.block])
    /\ ctrl' = Evaluate(ctrl.stmt.condition)
    /\ UNCHANGED <<parser, program, envs, environment, output, result>>

\* Runtime::loop_stmt, line 104: the condition has been evaluated
loop_stmt_condition ==
    /\ Returns("value", "loop_stmt.condition")
    /\ IF into_bool(ctrl.value)
       THEN /\ stack' = Append(Pop, [Top EXCEPT !.f = "loop_stmt.block"])
            /\ ctrl' = ExecStatement(Top.block)
       ELSE /\ stack' = Pop
            /\ ctrl' = ReturnSignal(None)
    /\ UNCHANGED <<parser, program, envs, environment, output, result>>

\* loop_stmt that takes every signal but LoopContinue for a break
loop_stmt_match_breaks(signal) ==
    IF signal.some /\ signal.v.sig # "LoopContinue" THEN "break" ELSE "continue"

\* Runtime::loop_stmt, lines 105-111: what the loop does with the signal of
\* its body
loop_stmt_match(signal) ==
    IF signal.some
    THEN CASE signal.v.sig = "LoopBreak" -> "break"
           [] signal.v.sig = "LoopContinue" -> "continue"
           [] OTHER -> "return"
    ELSE "continue"

\* Runtime::loop_stmt gets the signal of statement(block)
loop_stmt_signal ==
    /\ Returns("signal", "loop_stmt.block")
    /\ LET todo == loop_stmt_match(ctrl.signal)
       IN  CASE todo = "break" ->
                    /\ stack' = Pop
                    /\ ctrl' = ReturnSignal(None)
             [] todo = "continue" ->
                    /\ stack' = Append(Pop, [Top EXCEPT !.f = "loop_stmt.condition"])
                    /\ ctrl' = Evaluate(Top.condition)
             [] OTHER ->
                    /\ stack' = Pop
                    /\ ctrl' = ctrl
    /\ UNCHANGED <<parser, program, envs, environment, output, result>>

\* Runtime::statement, line 72
statement_break ==
    /\ ctrl.m = "statement" /\ ctrl.stmt.s = "Break"
    /\ ctrl' = ReturnSignal(Some(LoopBreak))
    /\ UNCHANGED <<parser, program, envs, environment, stack, output, result>>

\* Runtime::statement, line 73
statement_continue ==
    /\ ctrl.m = "statement" /\ ctrl.stmt.s = "Continue"
    /\ ctrl' = ReturnSignal(Some(LoopContinue))
    /\ UNCHANGED <<parser, program, envs, environment, stack, output, result>>

\* Runtime::statement, lines 74-76
statement_return ==
    /\ ctrl.m = "statement" /\ ctrl.stmt.s = "Return"
    /\ stack' = Push([f |-> "statement.return"])
    /\ ctrl' = Evaluate(ctrl.stmt.expression)
    /\ UNCHANGED <<parser, program, envs, environment, output, result>>

statement_return_signal ==
    /\ Returns("value", "statement.return")
    /\ stack' = Pop
    /\ ctrl' = ReturnSignal(Some(FunctionReturn(ctrl.value)))
    /\ UNCHANGED <<parser, program, envs, environment, output, result>>

(***************************************************************************)
(* Runtime::evaluate and the functions it dispatches to.                   *)
(***************************************************************************)
\* literal that keeps every number a Float
literal_value_float(lit) ==
    CASE lit.lit = "Boolean" -> Boolean(lit.b)
      [] lit.lit = "String" -> String(lit.s)
      [] lit.lit = "Number" -> Float(lit.f)
      [] OTHER -> Nil

\* Runtime::literal
literal_value(lit) ==
    CASE lit.lit = "Boolean" -> Boolean(lit.b)
      [] lit.lit = "String" -> String(lit.s)
      [] lit.lit = "Number" ->
            IF fract_is_zero(lit.f) THEN Integer(lit.f.num) ELSE Float(lit.f)
      [] OTHER -> Nil

literal ==
    /\ ctrl.m = "evaluate" /\ ctrl.expr.e = "Literal"
    /\ ctrl' = ReturnValue(literal_value(ctrl.expr.literal))
    /\ UNCHANGED <<parser, program, envs, environment, stack, output, result>>

\* Runtime::grouping
grouping ==
    /\ ctrl.m = "evaluate" /\ ctrl.expr.e = "Grouping"
    /\ ctrl' = Evaluate(ctrl.expr.expr)
    /\ UNCHANGED <<parser, program, envs, environment, stack, output, result>>

\* Runtime::evaluate, lines 188-194
evaluate_identifier ==
    /\ ctrl.m = "evaluate" /\ ctrl.expr.e = "Identifier"
    /\ LET found == get(envs, environment, ctrl.expr.name)
       IN  IF found.some
           THEN /\ ctrl' = ReturnValue(found.v)
                /\ UNCHANGED <<stack, result, environment>>
           ELSE Throw(VariableNotDefined(ctrl.expr.name))
    /\ UNCHANGED <<parser, program, envs, output>>

\* Runtime::evaluate, lines 195-201: the receiver self.environment() is
\* taken before the right-hand side is evaluated
evaluate_assignment ==
    /\ ctrl.m = "evaluate" /\ ctrl.expr.e = "Assignment"
    /\ stack' = Push([f |-> "assignment", identifier |-> ctrl.expr.identifier,
                      environment |-> environment])
    /\ ctrl' = Evaluate(ctrl.expr.expression)
    /\ UNCHANGED <<parser, program, envs, environment, output, result>>

\* an assignment whose value is the assigned value
assignment_value_assigned(value) == value

\* Runtime::evaluate, line 200: `.map(|_| Rc::new(RuntimeValue::nil()))`
assignment_value(value) == Nil

evaluate_assignment_assign ==
    /\ Returns("value", "assignment")
    /\ LET r == assign(envs, Top.environment, Top.identifier, ctrl.value)
       IN  /\ envs' = r.store
           /\ IF r.ok
              THEN /\ stack' = Pop
                   /\ ctrl' = ReturnValue(assignment_value(ctrl.value))
                   /\ result' = result
                   /\ environment' = environment
              ELSE Throw(r.err)
    /\ UNCHANGED <<parser, program, output>>

\* Runtime::unary
unary ==
    /\ ctrl.m = "evaluate" /\ ctrl.expr.e = "Unary"
    /\ stack' = Push([f |-> "unary", operator |-> ctrl.expr.operator])
    /\ ctrl' = Evaluate(ctrl.expr.right)
    /\ UNCHANGED <<parser, program, envs, environment, output, result>>

\* Runtime::unary, lines 288-293
unary_match(operator, right) ==
    CASE operator = "Subtraction" -> Neg(right)
      [] operator = "Addition" -> Some(right)
      [] operator = "Negation" -> Not(right)
      [] OTHER -> None

unary_apply ==
    /\ Returns("value", "unary")
    /\ LET r == unary_match(Top.operator, ctrl.value)
       IN  IF r.some
           THEN /\ stack' = Pop
                /\ ctrl' = ReturnValue(r.v)
                /\ result' = result
                /\ environment' = environment
           ELSE Throw(ExpectedNumberOperand)
    /\ UNCHANGED <<parser, program, envs, output>>

\* Runtime::binary, line 305
binary ==
    /\ ctrl.m = "evaluate" /\ ctrl.expr.e = "Binary"
    /\ stack' = Push([f |-> "binary.left", operator |-> ctrl.expr.operator,
                      right_ast |-> ctrl.expr.right])
    /\ ctrl' = Evaluate(ctrl.expr.left)
    /\ UNCHANGED <<parser, program, envs, environment, output, result>>

\* binary that always evaluates the right operand
binary_eager(operator, left) == None

\* Runtime::binary, lines 306-310 and the left operands of `&&` and `||` at
\* lines 334 and 337: Some(result) when the right operand is not evaluated
binary_short_circuit(operator, left) ==
    CASE operator = "Conjunction" ->
            IF into_bool(left) THEN None ELSE Some(Boolean(FALSE))
      [] operator = "Disjunction" ->
            IF into_bool(left) THEN Some(Boolean(TRUE)) ELSE None
      [] OTHER -> None

\* Runtime::binary: the left operand has been evaluated
binary_left ==
    /\ Returns("value", "binary.left")
    /\ LET short == binary_short_circuit(Top.operator, ctrl.value)
       IN  IF short.some
           THEN /\ stack' = Pop
                /\ ctrl' = ReturnValue(short.v)
           ELSE /\ stack' = Append(Pop, [f |-> "binary.right",
                                         operator |-> Top.operator,
                                         left |-> ctrl.value])
                /\ ctrl' = Evaluate(Top.right_ast)
    /\ UNCHANGED <<parser, program, envs, environment, output, result>>

gt(lhs, rhs) == partial_cmp(lhs, rhs) = Some("Greater")
ge(lhs, rhs) == partial_cmp(lhs, rhs) \in {Some("Greater"), Some("Equal")}
lt(lhs, rhs) == partial_cmp(lhs, rhs) = Some("Less")
le(lhs, rhs) == partial_cmp(lhs, rhs) \in {Some("Less"), Some("Equal")}

\* binary that dispatches to Div before it tests the divisor
binary_division_late(left, right) ==
    LET r == Div(left, IF eq(right, Integer(0)) THEN Integer(1) ELSE right)
    IN  IF ~r.some THEN [ok |-> FALSE, err |-> ExpectedNumberOperand]
        ELSE IF eq(right, Integer(0)) \/ eq(right, Float(F64(0, 1)))
             THEN [ok |-> FALSE, err |-> ZeroDivision]
             ELSE [ok |-> TRUE, v |-> r.v]

\* Runtime::binary, lines 316-326
binary_division(left, right) ==
    IF eq(right, Integer(0)) \/ eq(right, Float(F64(0, 1)))
    THEN [ok |-> FALSE, err |-> ZeroDivision]
    ELSE LET r == Div(left, right)
         IN  IF r.some THEN [ok |-> TRUE, v |-> r.v]
             ELSE [ok |-> FALSE, err |-> ExpectedNumberOperand]

\* Runtime::binary, lines 312-344, with both operands evaluated; the
\* operators the parser never puts in a Binary reach unreachable!()
binary_match(operator, left, right) ==
    LET ok_or(r) == IF r.some THEN [ok |-> TRUE, v |-> r.v]
                    ELSE [ok |-> FALSE, err |-> ExpectedNumberOperand]
    IN  CASE operator = "Addition" -> ok_or(Add(left, right))
          [] operator = "Subtraction" -> ok_or(Sub(left, right))
          [] operator = "Multiplication" -> ok_or(Mul(left, right))
          [] operator = "Division" -> binary_division(left, right)
          [] operator = "Greater" -> ok_or(Some(Boolean(gt(left, right))))
          [] operator = "GreaterOrEqual" -> ok_or(Some(Boolean(ge(left, right))))
          [] operator = "Less" -> ok_or(Some(Boolean(lt(left, right))))
          [] operator = "LessOrEqual" -> ok_or(Some(Boolean(le(left, right))))
          [] operator = "Equal" -> ok_or(Some(Boolean(eq(left, right))))
          [] operator = "NotEqual" -> ok_or(Some(Boolean(~eq(left, right))))
          [] operator = "Conjunction" -> ok_or(Some(Boolean(into_bool(right))))
          [] operator = "Disjunction" -> ok_or(Some(Boolean(into_bool(right))))
          [] OTHER -> [ok |-> FALSE, panic |-> TRUE]

\* Runtime::binary: the right operand has been evaluated
binary_right ==
    /\ Returns("value", "binary.right")
    /\ LET r == binary_match(Top.operator, Top.left, ctrl.value)
       IN  IF r.ok
           THEN /\ stack' = Pop
                /\ ctrl' = ReturnValue(r.v)
                /\ result' = result
                /\ environment' = environment
           ELSE IF "panic" \in DOMAIN r
                THEN Panic /\ environment' = environment
                ELSE Throw(r.err)
    /\ UNCHANGED <<parser, program, envs, output>>

\* Runtime::conditional
conditional ==
    /\ ctrl.m = "evaluate" /\ ctrl.expr.e = "Conditional"
    /\ stack' = Push([f |-> "conditional", then |-> ctrl.expr.then,
                      alternative |-> ctrl.expr.alternative])
    /\ ctrl' = Evaluate(ctrl.expr.condition)
    /\ UNCHANGED <<parser, program, envs, environment, output, result>>

\* Runtime::conditional, line 355
conditional_test(condition_result) == eq(condition_result, Boolean(TRUE))

\* Runtime::conditional, lines 355-359
conditional_branch ==
    /\ Returns("value", "conditional")
    /\ stack' = Pop
    /\ ctrl' = IF conditional_test(ctrl.value)
               THEN Evaluate(Top.then)
               ELSE Evaluate(Top.alternative)
    /\ UNCHANGED <<parser, program, envs, environment, output, result>>

\* Runtime::function_invokation, line 213
function_invokation ==
    /\ ctrl.m = "evaluate" /\ ctrl.expr.e = "FunctionInvokation"
    /\ stack' = Push([f |-> "function_invokation.callee",
                      arguments |-> ctrl.expr.arguments])
    /\ ctrl' = Evaluate(ctrl.expr.callee)
    /\ UNCHANGED <<parser, program, envs, environment, output, result>>

\* function_invokation that only refuses arguments it has no parameter for
function_invokation_check_lenient(callee, arguments) ==
    IF callee.t = "Callable"
    THEN IF Len(arguments) > Len(callee.parameters)
         THEN Some(InvalidArgumentCount(Len(arguments), Len(callee.parameters)))
         ELSE None
    ELSE Some(ExpressionNotCallable)

\* Runtime::function_invokation, lines 215-225 and 260-262: the error the
\* call fails with before anything else is done, if any
function_invokation_check(callee, arguments) ==
    IF callee.t = "Callable"
    THEN IF Len(arguments) # Len(callee.parameters)
         THEN Some(InvalidArgumentCount(Len(arguments), Len(callee.parameters)))
         ELSE None
    ELSE Some(ExpressionNotCallable)

\* function_invokation that chains the new environment to the call site
function_invokation_enclosing_dynamic(closure, current) == current

\* Runtime::function_invokation, line 227: the environment the new one is
\* chained to; `current` is the environment of the call site
function_invokation_enclosing(closure, current) == closure

\* Runtime::function_invokation, lines 215-227: the callee has been evaluated
function_invokation_callee ==
    /\ Returns("value", "function_invokation.callee")
    /\ LET check == function_invokation_check(ctrl.value, Top.arguments)
       IN  IF check.some
           THEN /\ Throw(check.v)
                /\ envs' = envs
           ELSE /\ Len(envs) < MaxEnvs
                /\ envs' = Append(envs, with_enclosing(
                       function_invokation_enclosing(ctrl.value.closure, environment)))
                /\ stack' = Append(Pop, [f |-> "function_invokation.arguments",
                                         callee |-> ctrl.value,
                                         arguments |-> Top.arguments,
                                         environment |-> Len(envs) + 1,
                                         idx |-> 1])
                /\ ctrl' = [m |-> "arguments"]
                /\ result' = result
                /\ environment' = environment
    /\ UNCHANGED <<parser, program, output>>

\* function_invokation that runs the statements of the body in the
\* environment of the parameters
function_invokation_arguments_one_environment ==
    /\ ctrl.m = "arguments"
    /\ IF Top.idx <= Len(Top.arguments)
       THEN /\ ctrl' = Evaluate(Top.arguments[Top.idx])
            /\ UNCHANGED <<stack, environment>>
       ELSE /\ environment' = Top.environment
            /\ stack' = Append(Pop, [f |-> "function_invokation.block",
                                     prev_environment |-> environment])
            /\ ctrl' = [m |-> "_run", statements |-> Top.callee.execute]
    /\ UNCHANGED <<parser, program, envs, output, result>>

\* Runtime::function_invokation, lines 228-236: the next argument, or after
\* the last one the body, run as a block in the new environment
function_invokation_arguments ==
    /\ ctrl.m = "arguments"
    /\ IF Top.idx <= Len(Top.arguments)
       THEN /\ ctrl' = Evaluate(Top.arguments[Top.idx])
            /\ UNCHANGED <<stack, environment>>
       ELSE /\ environment' = Top.environment
            /\ stack' = Append(Pop, [f |-> "function_invokation.block",
                                     prev_environment |-> environment])
            /\ ctrl' = ExecStatement(Block(Top.callee.execute))
    /\ UNCHANGED <<parser, program, envs, output, result>>

\* Runtime::function_invokation, lines 229-231
function_invokation_define ==
    /\ Returns("value", "function_invokation.arguments")
    /\ LET r == define(envs, Top.environment,
                       Top.callee.parameters[Top.idx], ctrl.value)
       IN  /\ envs' = r.store
           /\ IF r.ok
              THEN /\ stack' = Append(Pop, [Top EXCEPT !.idx = @ + 1])
                   /\ ctrl' = [m |-> "arguments"]
                   /\ result' = result
                   /\ environment' = environment
              ELSE Throw(r.err)
    /\ UNCHANGED <<parser, program, output>>

\* function_invokation that lets a loop signal end the call like a plain end
function_invokation_match_swallows(signal) ==
    IF signal.some /\ signal.v.sig = "FunctionReturn"
    THEN [ok |-> TRUE, v |-> signal.v.value]
    ELSE [ok |-> TRUE, v |-> Nil]

\* function_invokation that forgets the value a return carries
function_invokation_match_forgets(signal) ==
    IF signal.some
    THEN CASE signal.v.sig = "FunctionReturn" -> [ok |-> TRUE, v |-> Nil]
           [] signal.v.sig = "LoopBreak" -> [ok |-> FALSE, err |-> BreakNotWithinLoop]
           [] OTHER -> [ok |-> FALSE, err |-> ContinueNotWithinLoop]
    ELSE [ok |-> TRUE, v |-> Nil]

\* Runtime::function_invokation, lines 240-258: the result of the call for
\* the signal of the body
function_invokation_match(signal) ==
    IF signal.some
    THEN CASE signal.v.sig = "FunctionReturn" -> [ok |-> TRUE, v |-> signal.v.value]
           [] signal.v.sig = "LoopBreak" -> [ok |-> FALSE, err |-> BreakNotWithinLoop]
           [] OTHER -> [ok |-> FALSE, err |-> ContinueNotWithinLoop]
    ELSE [ok |-> TRUE, v |-> Nil]

\* Runtime::function_invokation, lines 238-258: the body has returned a signal
function_invokation_return ==
    /\ Returns("signal", "function_invokation.block")
    /\ LET r == function_invokation_match(ctrl.signal)
       IN  IF r.ok
           THEN /\ stack' = Pop
                /\ ctrl' = ReturnValue(r.v)
                /\ result' = result
                /\ environment' = Top.prev_environment
           ELSE Raise(r.err, Top.prev_environment)
    /\ UNCHANGED <<parser, program, envs, output>>

(***************************************************************************)
(* The programs run.  Each is the Vec<Rc<Statement>> handed to run; the    *)
(* comment gives its source text.                                          *)
(***************************************************************************)
Num(n) == Literal(LitNumber(n, 1))
Half == Literal(LitNumber(1, 2))
Str(s) == Literal(LitString(s))
Bool(b) == Literal(LitBoolean(b))
NilLit == Literal(LitNil)
FloatZero == Grouping(Binary(Half, "Subtraction", Half))
OneByZero == Grouping(Binary(Num(1), "Division", Num(0)))
Call(name, arguments) == FunctionInvokation(Identifier(name), arguments)

\* var x = 1; { var x = 2; print x; } print x;
Shadowing ==
    << VariableDeclaration("x", Num(1)),
       Block(<<VariableDeclaration("x", Num(2)), PrintStmt(Identifier("x"))>>),
       PrintStmt(Identifier("x")) >>

\* var x = 1; var x = 2;
Redefinition == << VariableDeclaration("x", Num(1)), VariableDeclaration("x", Num(2)) >>

\* var x = 1; { var x = 2; { var x = 3; print x; } } var x = 4;
RedefinitionNested ==
    << VariableDeclaration("x", Num(1)),
       Block(<<VariableDeclaration("x", Num(2)),
               Block(<<VariableDeclaration("x", Num(3)), PrintStmt(Identifier("x"))>>)>>),
       VariableDeclaration("x", Num(4)) >>

\* fun f() { } var f = 1;
RedefinitionOfFunction ==
    << FunctionDeclaration("f", <<>>, Block(<<>>)), VariableDeclaration("f", Num(1)) >>

\* var f = 1; { fun f() { } } fun f() { }
FunctionRedefinition ==
    << VariableDeclaration("f", Num(1)),
       Block(<<FunctionDeclaration("f", <<>>, Block(<<>>))>>),
       FunctionDeclaration("f", <<>>, Block(<<>>)) >>

\* var x = 1; var y = 1; { var x = 2; { x = 3; y = 4; print x; print y; } print x; }
\* print x; print y; z = 5;
AssignNearest ==
    << VariableDeclaration("x", Num(1)),
       VariableDeclaration("y", Num(1)),
       Block(<<VariableDeclaration("x", Num(2)),
               Block(<<ExpressionStmt(Assignment("x", Num(3))),
                       ExpressionStmt(Assignment("y", Num(4))),
                       PrintStmt(Identifier("x")),
                       PrintStmt(Identifier("y"))>>),
               PrintStmt(Identifier("x"))>>),
       PrintStmt(Identifier("x")),
       PrintStmt(Identifier("y")),
       ExpressionStmt(Assignment("z", Num(5))) >>

\* { x = 1; }
AssignUndefined == << Block(<<ExpressionStmt(Assignment("x", Num(1)))>>) >>

\* var a = 1; var b = 2; a = b = 3; print a; print b;
AssignChain ==
    << VariableDeclaration("a", Num(1)),
       VariableDeclaration("b", Num(2)),
       ExpressionStmt(Assignment("a", Assignment("b", Num(3)))),
       PrintStmt(Identifier("a")),
       PrintStmt(Identifier("b")) >>

\* print x;
ReadUndefined == << PrintStmt(Identifier("x")) >>

\* var x = 1; fun f() { return x; } { var x = 2; print f(); }
LexicalScope ==
    << VariableDeclaration("x", Num(1)),
       FunctionDeclaration("f", <<>>, Block(<<Return(Identifier("x"))>>)),
       Block(<<VariableDeclaration("x", Num(2)), PrintStmt(Call("f", <<>>))>>) >>

\* var g = nil; var x = 1; { var x = 2; fun f() { print x; } g = f; } g();
LexicalScopeEscaping ==
    << VariableDeclaration("g", NilLit),
       VariableDeclaration("x", Num(1)),
       Block(<<VariableDeclaration("x", Num(2)),
               FunctionDeclaration("f", <<>>, Block(<<PrintStmt(Identifier("x"))>>)),
               ExpressionStmt(Assignment("g", Identifier("f")))>>),
       ExpressionStmt(Call("g", <<>>)) >>

\* fun f() { print x; } fun g() { var x = 1; f(); } g();
DynamicOnly ==
    << FunctionDeclaration("f", <<>>, Block(<<PrintStmt(Identifier("x"))>>)),
       FunctionDeclaration("g", <<>>,
           Block(<<VariableDeclaration("x", Num(1)), ExpressionStmt(Call("f", <<>>))>>)),
       ExpressionStmt(Call("g", <<>>)) >>

\* The values a captured variable is given in the closure programs.
CapturedValues == {Num(1), Num(2), Str("a"), Bool(TRUE), NilLit}

\* var x = A; fun f() { print x; } f(); x = B; f();
ClosureSeesAssignment(a, b) ==
    << VariableDeclaration("x", a),
       FunctionDeclaration("f", <<>>, Block(<<PrintStmt(Identifier("x"))>>)),
       ExpressionStmt(Call("f", <<>>)),
       ExpressionStmt(Assignment("x", b)),
       ExpressionStmt(Call("f", <<>>)) >>

\* var g = nil; { var x = A; fun f() { return x; } g = f; x = B; print g(); }
ClosureInBlock(a, b) ==
    << VariableDeclaration("g", NilLit),
       Block(<<VariableDeclaration("x", a),
               FunctionDeclaration("f", <<>>, Block(<<Return(Identifier("x"))>>)),
               ExpressionStmt(Assignment("g", Identifier("f"))),
               ExpressionStmt(Assignment("x", b)),
               PrintStmt(Call("g", <<>>))>>) >>

\* fun make() { var c = 0; fun inc() { c = c + 1; return c; } return inc; }
\* var i = make(); print i(); print i();
Counter ==
    << FunctionDeclaration("make", <<>>,
           Block(<<VariableDeclaration("c", Num(0)),
                   FunctionDeclaration("inc", <<>>,
                       Block(<<ExpressionStmt(Assignment("c",
                                   Binary(Identifier("c"), "Addition", Num(1)))),
                               Return(Identifier("c"))>>)),
                   Return(Identifier("inc"))>>)),
       VariableDeclaration("i", Call("make", <<>>)),
       PrintStmt(Call("i", <<>>)),
       PrintStmt(Call("i", <<>>)) >>

ClosurePrograms ==
    {ClosureSeesAssignment(a, b) : a, b \in CapturedValues}
        \cup {ClosureInBlock(a, b) : a, b \in CapturedValues}
        \cup {Counter}

\* The statements that produce a signal.
SignalStatements == {Break, Continue, Return(Num(7))}

\* S print 1;
StrayAtTop(stmt) == << stmt, PrintStmt(Num(1)) >>

\* print 0; { if true { S print 1; } print 2; } print 3;
StrayNested(stmt) ==
    << PrintStmt(Num(0)),
       Block(<<ConditionalStmt(Bool(TRUE), Block(<<stmt, PrintStmt(Num(1))>>), None),
               PrintStmt(Num(2))>>),
       PrintStmt(Num(3)) >>

\* if false { } else { S } print 1;
StrayInElse(stmt) ==
    << ConditionalStmt(Bool(FALSE), Block(<<>>), Some(Block(<<stmt>>))),
       PrintStmt(Num(1)) >>

\* fun f() { S print 1; } var i = 0; while i < 2 { i = i + 1; print f(); print i; }
\* print 9;
StrayInFunction(stmt) ==
    << FunctionDeclaration("f", <<>>, Block(<<stmt, PrintStmt(Num(1))>>)),
       VariableDeclaration("i", Num(0)),
       While(Binary(Identifier("i"), "Less", Num(2)),
             Block(<<ExpressionStmt(Assignment("i",
                         Binary(Identifier("i"), "Addition", Num(1)))),
                     PrintStmt(Call("f", <<>>)),
                     PrintStmt(Identifier("i"))>>)),
       PrintStmt(Num(9)) >>

\* fun f() { if true { { S } } print 1; } print f();
StrayDeepInFunction(stmt) ==
    << FunctionDeclaration("f", <<>>,
           Block(<<ConditionalStmt(Bool(TRUE), Block(<<Block(<<stmt>>)>>), None),
                   PrintStmt(Num(1))>>)),
       PrintStmt(Call("f", <<>>)) >>

\* fun f() { print 1; } print f();
NoReturn ==
    << FunctionDeclaration("f", <<>>, Block(<<PrintStmt(Num(1))>>)),
       PrintStmt(Call("f", <<>>)) >>

\* fun f(a) { while true { if a { return "t"; } return "f"; } print 1; }
\* print f(1); print f(0);
ReturnFromLoop ==
    << FunctionDeclaration("f", <<"a">>,
           Block(<<While(Bool(TRUE),
                         Block(<<ConditionalStmt(Identifier("a"),
                                     Block(<<Return(Str("t"))>>), None),
                                 Return(Str("f"))>>)),
                   PrintStmt(Num(1))>>)),
       PrintStmt(Call("f", <<Num(1)>>)),
       PrintStmt(Call("f", <<Num(0)>>)) >>

\* var i = 0; while i < 3 { i = i + 1; if i == 1 { continue; } if i == 3 { break; }
\* print i; } print "end";
LoopSignals ==
    << VariableDeclaration("i", Num(0)),
       While(Binary(Identifier("i"), "Less", Num(3)),
             Block(<<ExpressionStmt(Assignment("i",
                         Binary(Identifier("i"), "Addition", Num(1)))),
                     ConditionalStmt(Binary(Identifier("i"), "Equal", Num(1)),
                                     Block(<<Continue>>), None),
                     ConditionalStmt(Binary(Identifier("i"), "Equal", Num(3)),
                                     Block(<<Break>>), None),
                     PrintStmt(Identifier("i"))>>)),
       PrintStmt(Str("end")) >>

\* fun f(a b) { return a - b; } print f(3 1);
TwoArguments ==
    << FunctionDeclaration("f", <<"a", "b">>,
           Block(<<Return(Binary(Identifier("a"), "Subtraction", Identifier("b")))>>)),
       PrintStmt(Call("f", <<Num(3), Num(1)>>)) >>

\* fun f(a) { } f();
TooFewArguments ==
    << FunctionDeclaration("f", <<"a">>, Block(<<>>)),
       ExpressionStmt(Call("f", <<>>)) >>

\* var x = 1; x();
NotCallable == << VariableDeclaration("x", Num(1)), ExpressionStmt(Call("x", <<>>)) >>

\* var x = 0; fun f() { print "body"; } f(x = 1);
TooManyArguments ==
    << VariableDeclaration("x", Num(0)),
       FunctionDeclaration("f", <<>>, Block(<<PrintStmt(Str("body"))>>)),
       ExpressionStmt(Call("f", <<Assignment("x", Num(1))>>)) >>

\* var x = 0; fun g(a b) { print "body"; } g(x = 1);
TooFewWithEffect ==
    << VariableDeclaration("x", Num(0)),
       FunctionDeclaration("g", <<"a", "b">>, Block(<<PrintStmt(Str("body"))>>)),
       ExpressionStmt(Call("g", <<Assignment("x", Num(1))>>)) >>

\* "a"(1 / 0);
NotCallableLiteral ==
    << ExpressionStmt(FunctionInvokation(Str("a"), <<OneByZero>>)) >>

\* fun f(a a) { } f(1 2);
DuplicateParameter ==
    << FunctionDeclaration("f", <<"a", "a">>, Block(<<>>)),
       ExpressionStmt(Call("f", <<Num(1), Num(2)>>)) >>

\* var x = 0; false and (x = x + 1); true or (x = x + 1); print x;
\* true and (x = x + 1); print x; false or (x = x + 1); print x;
ShortCircuitEffect ==
    LET Incr == Grouping(Assignment("x", Binary(Identifier("x"), "Addition", Num(1))))
    IN  << VariableDeclaration("x", Num(0)),
           ExpressionStmt(Binary(Bool(FALSE), "Conjunction", Incr)),
           ExpressionStmt(Binary(Bool(TRUE), "Disjunction", Incr)),
           PrintStmt(Identifier("x")),
           ExpressionStmt(Binary(Bool(TRUE), "Conjunction", Incr)),
           PrintStmt(Identifier("x")),
           ExpressionStmt(Binary(Bool(FALSE), "Disjunction", Incr)),
           PrintStmt(Identifier("x")) >>

\* print true ? -1 : !1; print 0 ? 1 : +2;
UnaryAndTernary ==
    << PrintStmt(Conditional(Bool(TRUE), Unary("Subtraction", Num(1)),
                             Unary("Negation", Num(1)))),
       PrintStmt(Conditional(Num(0), Num(1), Unary("Addition", Num(2)))),
       PrintStmt(Unary("Subtraction", Str("a"))) >>

\* print 1 + 2; which is also print 1 + 2.0; (the literals 2 and 2.0 are the
\* same f64)
OnePlusTwo == <<PrintStmt(Binary(Num(1), "Addition", Num(2)))>>

\* print 1 + 0.5; print 1 + (0.5 + 0.5) + 1;
IntegerPlusFloat ==
    << PrintStmt(Binary(Num(1), "Addition", Half)),
       PrintStmt(Binary(Binary(Num(1), "Addition",
                               Grouping(Binary(Half, "Addition", Half))),
                        "Addition", Num(1))) >>

\* The operand expressions of the generated programs: 0, 1, 10, 0.5,
\* (0.5 - 0.5), "a", "", true, false, nil and (1 / 0)
Operands ==
    {Num(0), Num(1), Num(10), Half, FloatZero, Str("a"), Str(""),
     Bool(TRUE), Bool(FALSE), NilLit, OneByZero}

BinaryOperators ==
    {"Addition", "Subtraction", "Multiplication", "Division", "Greater",
     "GreaterOrEqual", "Less", "LessOrEqual", "Equal", "NotEqual",
     "Conjunction", "Disjunction"}

\* print L op R;
BinaryPrograms ==
    { <<PrintStmt(Binary(l, op, r))>> : l \in Operands, r \in Operands,
                                        op \in BinaryOperators }

\* print !V;
NegationPrograms == { <<PrintStmt(Unary("Negation", v))>> : v \in Operands }

\* if V { print "then"; } else { print "else"; } print "after";
IfElse(v) ==
    << ConditionalStmt(v, Block(<<PrintStmt(Str("then"))>>),
                       Some(Block(<<PrintStmt(Str("else"))>>))),
       PrintStmt(Str("after")) >>

\* if V { print "then"; } print "after";
IfOnly(v) ==
    << ConditionalStmt(v, Block(<<PrintStmt(Str("then"))>>), None),
       PrintStmt(Str("after")) >>

\* while true { if V { break; } else { break; } } print "after";
IfInLoop(v) ==
    << While(Bool(TRUE),
             Block(<< ConditionalStmt(v, Block(<<Break>>),
                                      Some(Block(<<Break>>))) >>)),
       PrintStmt(Str("after")) >>

IfPrograms ==
    {IfElse(v) : v \in Operands} \cup {IfOnly(v) : v \in Operands}
        \cup {IfInLoop(v) : v \in Operands}

\* fun f() { } print f / R;
CallableDividend ==
    { <<FunctionDeclaration("f", <<>>, Block(<<>>)),
        PrintStmt(Binary(Identifier("f"), "Division", r))>> : r \in Operands }

\* `(n = n + 1) or E`: a condition that counts how often it is evaluated in
\* n and has the truth of E (an assignment is Nil)
Counting(expr) ==
    Binary(Grouping(Assignment("n", Binary(Identifier("n"), "Addition", Num(1)))),
           "Disjunction", expr)

\* var n = 0; while (n = n + 1) or n < 3 { print "b"; break; print "x"; }
\* print n;
LoopBreaks ==
    << VariableDeclaration("n", Num(0)),
       While(Counting(Binary(Identifier("n"), "Less", Num(3))),
             Block(<<PrintStmt(Str("b")), Break, PrintStmt(Str("x"))>>)),
       PrintStmt(Identifier("n")) >>

\* var n = 0; while (n = n + 1) or n < 3 { print n; continue; print "x"; }
\* print n;
LoopContinues ==
    << VariableDeclaration("n", Num(0)),
       While(Counting(Binary(Identifier("n"), "Less", Num(3))),
             Block(<<PrintStmt(Identifier("n")), Continue, PrintStmt(Str("x"))>>)),
       PrintStmt(Identifier("n")) >>

\* fun f() { var n = 0; while (n = n + 1) or true { return n; print "x"; }
\* print "y"; } print f();
LoopReturns ==
    << FunctionDeclaration("f", <<>>,
           Block(<<VariableDeclaration("n", Num(0)),
                   While(Counting(Bool(TRUE)),
                         Block(<<Return(Identifier("n")), PrintStmt(Str("x"))>>)),
                   PrintStmt(Str("y"))>>)),
       PrintStmt(Call("f", <<>>)) >>

\* var n = 0; while (n = n + 1) or false { print "x"; } print n;
LoopNever ==
    << VariableDeclaration("n", Num(0)),
       While(Counting(Bool(FALSE)), Block(<<PrintStmt(Str("x"))>>)),
       PrintStmt(Identifier("n")) >>

\* var i = 0; while i < 2 { i = i + 1; while true { break; } print i; }
LoopInLoop ==
    << VariableDeclaration("i", Num(0)),
       While(Binary(Identifier("i"), "Less", Num(2)),
             Block(<<ExpressionStmt(Assignment("i",
                         Binary(Identifier("i"), "Addition", Num(1)))),
                     While(Bool(TRUE), Block(<<Break>>)),
                     PrintStmt(Identifier("i"))>>)) >>

\* var i = 0; while i < 2 { i = i + 1; { if true { S print "a"; } print "b"; }
\* print "c"; } print i;
SignalDeepInLoop(stmt) ==
    << VariableDeclaration("i", Num(0)),
       While(Binary(Identifier("i"), "Less", Num(2)),
             Block(<<ExpressionStmt(Assignment("i",
                         Binary(Identifier("i"), "Addition", Num(1)))),
                     Block(<<ConditionalStmt(Bool(TRUE),
                                 Block(<<stmt, PrintStmt(Str("a"))>>), None),
                             PrintStmt(Str("b"))>>),
                     PrintStmt(Str("c"))>>)),
       PrintStmt(Identifier("i")) >>

LoopPrograms ==
    {LoopBreaks, LoopContinues, LoopReturns, LoopNever, LoopInLoop,
     SignalDeepInLoop(Break), SignalDeepInLoop(Continue)}

\* print V ? "then" : "else";
Ternary(v) == << PrintStmt(Conditional(v, Str("then"), Str("else"))) >>

\* print 1 < 2 ? "yes" : "no";
TernaryOfComparison ==
    << PrintStmt(Conditional(Binary(Num(1), "Less", Num(2)),
                             Str("yes"), Str("no"))) >>

TernaryPrograms == {Ternary(v) : v \in Operands} \cup {TernaryOfComparison}

\* print 1; { { print 1 / 0; print 2; } print 3; } print 4;
ErrorInBlock ==
    << PrintStmt(Num(1)),
       Block(<<Block(<<PrintStmt(OneByZero), PrintStmt(Num(2))>>),
               PrintStmt(Num(3))>>),
       PrintStmt(Num(4)) >>

\* fun f(a) { print a; x; print 2; } { f(1); print 3; } print 4;
ErrorInFunction ==
    << FunctionDeclaration("f", <<"a">>,
           Block(<<PrintStmt(Identifier("a")), ExpressionStmt(Identifier("x")),
                   PrintStmt(Num(2))>>)),
       Block(<<ExpressionStmt(Call("f", <<Num(1)>>)), PrintStmt(Num(3))>>),
       PrintStmt(Num(4)) >>

\* var i = 0; while i < 2 { i = i + 1; if i == 2 { var i = "a"; print -i; } }
ErrorInLoop ==
    << VariableDeclaration("i", Num(0)),
       While(Binary(Identifier("i"), "Less", Num(2)),
             Block(<<ExpressionStmt(Assignment("i",
                         Binary(Identifier("i"), "Addition", Num(1)))),
                     ConditionalStmt(Binary(Identifier("i"), "Equal", Num(2)),
                         Block(<<VariableDeclaration("i", Str("a")),
                                 PrintStmt(Unary("Subtraction", Identifier("i")))>>),
                         None)>>)) >>

ErrorPrograms == {ErrorInBlock, ErrorInFunction, ErrorInLoop}

\* var i = 0; while i < 2 { var v = i; print v; i = i + 1; }
VarInLoop ==
    << VariableDeclaration("i", Num(0)),
       While(Binary(Identifier("i"), "Less", Num(2)),
             Block(<<VariableDeclaration("v", Identifier("i")),
                     PrintStmt(Identifier("v")),
                     ExpressionStmt(Assignment("i",
                         Binary(Identifier("i"), "Addition", Num(1))))>>)) >>

\* var i = 0; while i < 2 { if i == 1 { print v; } var v = i; i = i + 1; }
VarOfEarlierIteration ==
    << VariableDeclaration("i", Num(0)),
       While(Binary(Identifier("i"), "Less", Num(2)),
             Block(<<ConditionalStmt(Binary(Identifier("i"), "Equal", Num(1)),
                         Block(<<PrintStmt(Identifier("v"))>>), None),
                     VariableDeclaration("v", Identifier("i")),
                     ExpressionStmt(Assignment("i",
                         Binary(Identifier("i"), "Addition", Num(1))))>>)) >>

\* fun f(n) { var v = n; if n < 2 { f(n + 1); } print v; } f(1); f(2);
VarInRecursion ==
    << FunctionDeclaration("f", <<"n">>,
           Block(<<VariableDeclaration("v", Identifier("n")),
                   ConditionalStmt(Binary(Identifier("n"), "Less", Num(2)),
                       Block(<<ExpressionStmt(Call("f",
                                 <<Binary(Identifier("n"), "Addition", Num(1))>>))>>),
                       None),
                   PrintStmt(Identifier("v"))>>)),
       ExpressionStmt(Call("f", <<Num(1)>>)),
       ExpressionStmt(Call("f", <<Num(2)>>)) >>

\* fun f(n) { if n == 2 { print v; } var v = n; } f(1); f(2);
VarOfEarlierCall ==
    << FunctionDeclaration("f", <<"n">>,
           Block(<<ConditionalStmt(Binary(Identifier("n"), "Equal", Num(2)),
                       Block(<<PrintStmt(Identifier("v"))>>), None),
                   VariableDeclaration("v", Identifier("n"))>>)),
       ExpressionStmt(Call("f", <<Num(1)>>)),
       ExpressionStmt(Call("f", <<Num(2)>>)) >>

FreshPrograms == {VarInLoop, VarOfEarlierIteration, VarInRecursion, VarOfEarlierCall}

\* fun f(a) { var a = 2; print a; } f(1);
ParameterShadowed ==
    << FunctionDeclaration("f", <<"a">>,
           Block(<<VariableDeclaration("a", Num(2)),
                   PrintStmt(Identifier("a"))>>)),
       ExpressionStmt(Call("f", <<Num(1)>>)) >>

\* fun f(a a) { print "body"; } print 1; f(1 2); print 2;
DuplicateParameterCalled ==
    << FunctionDeclaration("f", <<"a", "a">>, Block(<<PrintStmt(Str("body"))>>)),
       PrintStmt(Num(1)),
       ExpressionStmt(Call("f", <<Num(1), Num(2)>>)),
       PrintStmt(Num(2)) >>

\* var x = 10; fun f(a b) { print a; print b; print x; }
\* { var x = 1; f(x (x = 2) ? 0 : x); print x; }
ArgumentsInOrder ==
    << VariableDeclaration("x", Num(10)),
       FunctionDeclaration("f", <<"a", "b">>,
           Block(<<PrintStmt(Identifier("a")), PrintStmt(Identifier("b")),
                   PrintStmt(Identifier("x"))>>)),
       Block(<<VariableDeclaration("x", Num(1)),
               ExpressionStmt(Call("f",
                   <<Identifier("x"),
                     Conditional(Grouping(Assignment("x", Num(2))), Num(0),
                                 Identifier("x"))>>)),
               PrintStmt(Identifier("x"))>>) >>

ParameterPrograms ==
    {ParameterShadowed, DuplicateParameterCalled, ArgumentsInOrder}

\* fun f() { } print f == R; print R != f; print f == f; print f != f;
CallableEquals ==
    { <<FunctionDeclaration("f", <<>>, Block(<<>>)),
        PrintStmt(Binary(Identifier("f"), "Equal", r)),
        PrintStmt(Binary(r, "NotEqual", Identifier("f"))),
        PrintStmt(Binary(Identifier("f"), "Equal", Identifier("f"))),
        PrintStmt(Binary(Identifier("f"), "NotEqual", Identifier("f")))>> :
          r \in {Num(1), Str("a"), NilLit} }

Programs ==
    {Shadowing, Redefinition, RedefinitionNested, RedefinitionOfFunction,
     FunctionRedefinition, AssignNearest, AssignUndefined, AssignChain,
     ReadUndefined, LexicalScope, LexicalScopeEscaping, DynamicOnly,
     NoReturn, ReturnFromLoop, LoopSignals, TwoArguments, TooFewArguments,
     NotCallable, DuplicateParameter, ShortCircuitEffect, UnaryAndTernary,
     OnePlusTwo, IntegerPlusFloat, TooManyArguments, TooFewWithEffect,
     NotCallableLiteral}
        \cup ClosurePrograms
        \cup {StrayAtTop(s) : s \in SignalStatements}
        \cup {StrayNested(s) : s \in SignalStatements}
        \cup {StrayInElse(s) : s \in SignalStatements}
        \cup {StrayInFunction(s) : s \in SignalStatements}
        \cup {StrayDeepInFunction(s) : s \in SignalStatements}
        \cup BinaryPrograms
        \cup CallableDividend
        \cup NegationPrograms
        \cup IfPrograms
        \cup LoopPrograms
        \cup TernaryPrograms
        \cup ErrorPrograms
        \cup FreshPrograms
        \cup ParameterPrograms
        \cup CallableEquals

(***************************************************************************)
(* Runtime::new, then run(program)                                         *)
(***************************************************************************)
Init ==
    /\ program \in Programs
    /\ envs = <<Environment_new>>
    /\ environment = 1
    /\ stack = <<>>
    /\ ctrl = [m |-> "new"]
    /\ output = <<>>
    /\ result = Running
    /\ tokens = <<>>
    /\ cursor = 0
    /\ calls = <<>>
    /\ pc = [m |-> "idle"]
    /\ outcome = [state |-> "none"]

Next ==
    \/ run \/ run_return \/ _run \/ _run_signal
    \/ expr_stmt \/ expr_stmt_done
    \/ print_stmt \/ print_stmt_println
    \/ var_stmt \/ var_stmt_define
    \/ fun_stmt
    \/ block \/ block_restore
    \/ conditional_stmt \/ conditional_stmt_branch
    \/ loop_stmt \/ loop_stmt_condition \/ loop_stmt_signal
    \/ statement_break \/ statement_continue
    \/ statement_return \/ statement_return_signal
    \/ literal \/ grouping \/ evaluate_identifier
    \/ evaluate_assignment \/ evaluate_assignment_assign
    \/ unary \/ unary_apply
    \/ binary \/ binary_left \/ binary_right
    \/ conditional \/ conditional_branch
    \/ function_invokation \/ function_invokation_callee
    \/ function_invokation_arguments \/ function_invokation_define
    \/ function_invokation_return

Spec == Init /\ [][Next]_vars

(***************************************************************************)
(* Properties.  They are stated on the arena, the stack and the output     *)
(* directly, never through define, get or assign.                          *)
(***************************************************************************)
Done == ctrl.m = "done"

Bound(store, e) == DOMAIN store[e].values

\* The environments of the chain that starts at e, nearest first.
RECURSIVE ChainOf(_, _)
ChainOf(store, e) ==
    IF store[e].enclosing.some
    THEN <<e>> \o ChainOf(store, store[e].enclosing.v)
    ELSE <<e>>

\* The nearest environment of the chain of e that binds name; 0 when none does.
Nearest(store, e, name) ==
    LET chain == ChainOf(store, e)
        binding == {k \in 1..Len(chain) : name \in Bound(store, chain[k])}
    IN  IF binding = {} THEN 0
        ELSE chain[CHOOSE k \in binding : \A j \in binding : k <= j]

\* The three places that call Environment::define: the environment and the
\* name it is called with.
AtVarDefine == Returns("value", "var_stmt")
AtFunDefine == ctrl.m = "statement" /\ ctrl.stmt.s = "FunctionDeclaration"
AtParameterDefine == Returns("value", "function_invokation.arguments")
AtDefine == AtVarDefine \/ AtFunDefine \/ AtParameterDefine
DefineEnv == IF AtParameterDefine THEN Top.environment ELSE environment
DefineName ==
    IF AtVarDefine THEN Top.identifier
    ELSE IF AtFunDefine THEN ctrl.stmt.identifier
    ELSE Top.callee.parameters[Top.idx]

C1_Step ==
    AtDefine =>
        IF DefineName \in Bound(envs, DefineEnv)
        THEN /\ result' = RunErr(VariableAlreadyDefined(DefineName))
             /\ envs' = envs
        ELSE /\ result' = Running
             /\ Len(envs') = Len(envs)
             /\ Bound(envs', DefineEnv) = Bound(envs, DefineEnv) \cup {DefineName}
             /\ ~AtFunDefine => envs'[DefineEnv].values[DefineName] = ctrl.value
             /\ \A e \in 1..Len(envs) : \A n \in Bound(envs, e) :
                    envs'[e].values[n] = envs[e].values[n]
             /\ \A e \in 1..Len(envs) : e # DefineEnv => envs'[e] = envs[e]

C1_Programs ==
    /\ (program = Redefinition /\ Done)
          => /\ result = RunErr(VariableAlreadyDefined("x"))
             /\ envs[1].values["x"] = Integer(1)
    /\ (program = RedefinitionNested /\ Done)
          => /\ result = RunErr(VariableAlreadyDefined("x"))
             /\ output = <<"3">>
             /\ envs[1].values["x"] = Integer(1)

\* C1: Environment::define fails with VariableAlreadyDefined(name) exactly
\* when name is bound in the very environment it is called on, and then
\* changes nothing; bindings of enclosing environments never make it fail.
\* `var x = 1; var x = 2;` fails, a redeclaration in a nested block succeeds.
C1_DefineFailsOnlyInSameEnvironment == [][C1_Step]_vars /\ []C1_Programs

\* The nested redeclarations of x succeeded, the one in the global scope failed.
C1_Witness ==
    /\ program = RedefinitionNested
    /\ result = RunErr(VariableAlreadyDefined("x"))
    /\ \E e \in 2..Len(envs) :
          /\ "x" \in Bound(envs, e)
          /\ envs[e].enclosing.some
          /\ "x" \in Bound(envs, envs[e].enclosing.v)

AtIdentifier == ctrl.m = "evaluate" /\ ctrl.expr.e = "Identifier"

C2_Step ==
    AtIdentifier =>
        LET near == Nearest(envs, environment, ctrl.expr.name)
        IN  IF near = 0
            THEN result' = RunErr(VariableNotDefined(ctrl.expr.name))
            ELSE /\ ctrl' = ReturnValue(envs[near].values[ctrl.expr.name])
                 /\ result' = Running

C2_Programs ==
    /\ (program = Shadowing /\ Done) => (result = RunOk /\ output = <<"2", "1">>)
    /\ (program = ReadUndefined /\ Done)
          => (result = RunErr(VariableNotDefined("x")) /\ output = <<>>)

\* C2: Environment::get returns the value bound in the nearest environment of
\* the chain that binds the name, and none when no environment of the chain
\* binds it; `var x = 1; { var x = 2; print x; } print x;` prints 2 then 1.
C2_GetReturnsNearestBinding == [][C2_Step]_vars /\ []C2_Programs

\* x is read inside the block while the block and the global scope both bind it.
C2_Witness ==
    /\ program = Shadowing
    /\ AtIdentifier
    /\ Len(ChainOf(envs, environment)) = 2
    /\ \A e \in 1..2 : "x" \in Bound(envs, e)
    /\ envs[1].values["x"] # envs[2].values["x"]

AtAssign == Returns("value", "assignment")

C3_Step ==
    AtAssign =>
        LET near == Nearest(envs, Top.environment, Top.identifier)
        IN  /\ Len(envs') = Len(envs)
            /\ \A e \in 1..Len(envs) : Bound(envs', e) = Bound(envs, e)
            /\ IF near = 0
               THEN /\ result' = RunErr(VariableNotDefined(Top.identifier))
                    /\ envs' = envs
               ELSE /\ result' = Running
                    /\ envs'[near].values[Top.identifier] = ctrl.value
                    /\ \A e \in 1..Len(envs) : \A n \in Bound(envs, e) :
                          (e # near \/ n # Top.identifier)
                              => envs'[e].values[n] = envs[e].values[n]

C3_Programs ==
    /\ (program = AssignNearest /\ Done)
          => /\ result = RunErr(VariableNotDefined("z"))
             /\ output = <<"3", "4", "3", "1", "4">>
             /\ Bound(envs, 1) = {"x", "y"}
    /\ (program = AssignUndefined /\ Done)
          => /\ result = RunErr(VariableNotDefined("x"))
             /\ \A e \in 1..Len(envs) : Bound(envs, e) = {}

\* C3: Environment::assign overwrites the name only in the nearest environment
\* of the chain that binds it and leaves every other binding alone; when no
\* environment binds it, it fails with VariableNotDefined and changes nothing.
\* No assign ever changes the set of names an environment binds.
C3_AssignOverwritesNearestOnly == [][C3_Step]_vars /\ []C3_Programs

\* x was assigned two scopes below the block that shadows the global x: the
\* block's x changed, the global one did not.
C3_Witness ==
    /\ program = AssignNearest
    /\ Len(envs) >= 3
    /\ "x" \in Bound(envs, 2) /\ envs[2].values["x"] = Integer(3)
    /\ envs[1].values["x"] = Integer(1)
    /\ envs[1].values["y"] = Integer(4)
    /\ Bound(envs, 3) = {}

\* The call whose arguments are all bound starts its body.
AtBodyStart ==
    /\ ctrl.m = "arguments"
    /\ Top.idx > Len(Top.arguments)

\* The frames of the calls whose body is running, innermost last.
ActiveCalls == SelectSeq(stack, LAMBDA fr : fr.f = "function_invokation.block")

C4_Step ==
    /\ (AtFunDefine /\ ctrl.stmt.identifier \notin Bound(envs, environment))
          => envs'[environment].values[ctrl.stmt.identifier].closure = environment
    /\ AtBodyStart
          => /\ envs[environment'].enclosing = Some(Top.callee.closure)
             /\ Bound(envs, environment')
                   = {Top.callee.parameters[k] : k \in 1..Len(Top.callee.parameters)}
             /\ ctrl' = ExecStatement(Block(Top.callee.execute))

C4_Programs ==
    /\ (program = LexicalScope /\ Done) => (result = RunOk /\ output = <<"1">>)
    /\ (program = LexicalScopeEscaping /\ Done) => (result = RunOk /\ output = <<"2">>)
    /\ (program = DynamicOnly /\ Done)
          => (result = RunErr(VariableNotDefined("x")) /\ output = <<>>)

\* C4: calls are lexically scoped.  A function declaration captures the
\* environment that is current at the declaration, and the environment a body
\* runs in is chained to that captured environment, not to the caller's: a
\* free variable of the body resolves to the declaring scope's binding even
\* when the call site binds the same name in a scope the declaring scope does
\* not enclose.
C4_CallsAreLexicallyScoped == [][C4_Step]_vars /\ []C4_Programs

\* The body of f returns the x of the declaring scope (1) while the call
\* site's own scope binds x to 2.
C4_Witness ==
    /\ program = LexicalScope
    /\ Returns("value", "statement.return")
    /\ ctrl.value = Integer(1)
    /\ Len(ActiveCalls) = 1
    /\ LET caller == ActiveCalls[1].prev_environment
       IN  /\ "x" \in Bound(envs, caller)
           /\ envs[caller].values["x"] = Integer(2)
           /\ \A k \in 1..Len(ChainOf(envs, environment)) :
                 ChainOf(envs, environment)[k] # caller

DisplayOf(lit) == display(literal_value(lit.literal))

\* Every Callable held in the arena whose captured chain resolves the assigned
\* name to the assigned node reads the new value through its closure.
C5_Step ==
    AtAssign =>
        LET near == Nearest(envs, Top.environment, Top.identifier)
        IN  \A e \in 1..Len(envs) : \A n \in Bound(envs, e) :
               (/\ envs[e].values[n].t = "Callable"
                /\ near # 0
                /\ Nearest(envs, envs[e].values[n].closure, Top.identifier) = near)
                  => LET c == envs'[e].values[n].closure
                     IN  /\ c = envs[e].values[n].closure
                         /\ envs'[Nearest(envs', c, Top.identifier)]
                                .values[Top.identifier] = ctrl.value

C5_Programs ==
    /\ \A a, b \in CapturedValues :
          /\ (program = ClosureSeesAssignment(a, b) /\ Done)
                => (result = RunOk /\ output = <<DisplayOf(a), DisplayOf(b)>>)
          /\ (program = ClosureInBlock(a, b) /\ Done)
                => (result = RunOk /\ output = <<DisplayOf(b)>>)
    /\ (program = Counter /\ Done) => (result = RunOk /\ output = <<"1", "2">>)

\* C5: a closure shares its captured environment by reference.  When a
\* variable of the declaring scope is assigned after the declaration, every
\* later invocation of the function reads the new value, not the value the
\* variable had at the declaration.
C5_ClosureSeesLaterAssignment == [][C5_Step]_vars /\ []C5_Programs

\* f is running for the second time and reads the x assigned after its
\* declaration, which differs from the x it was declared with.
C5_Witness ==
    /\ program = ClosureSeesAssignment(Num(1), Num(2))
    /\ Returns("value", "print_stmt")
    /\ Len(ActiveCalls) = 1
    /\ output = <<"1">>
    /\ ctrl.value = Integer(2)

\* The error run converts a signal into.
StrayError(stmt) ==
    CASE stmt.s = "Break" -> BreakNotWithinLoop
      [] stmt.s = "Continue" -> ContinueNotWithinLoop
      [] OTHER -> ReturnNotWithinFunction

AtRunReturn == Returns("signal", "run")
AtRunLoop == Returns("signal", "_run")

C6_Step ==
    /\ AtRunReturn
          => /\ result' = RunOk <=> ~ctrl.signal.some
             /\ (ctrl.signal = Some(LoopBreak)) => result' = RunErr(BreakNotWithinLoop)
             /\ (ctrl.signal = Some(LoopContinue)) => result' = RunErr(ContinueNotWithinLoop)
             /\ (ctrl.signal.some /\ ctrl.signal.v.sig = "FunctionReturn")
                   => result' = RunErr(ReturnNotWithinFunction)
    /\ (AtRunLoop /\ ctrl.signal.some)
          => /\ ctrl' = ctrl
             /\ stack' = Pop
             /\ output' = output /\ envs' = envs

C6_Programs ==
    \A stmt \in SignalStatements :
        /\ (program = StrayAtTop(stmt) /\ Done)
              => (result = RunErr(StrayError(stmt)) /\ output = <<>>)
        /\ (program = StrayNested(stmt) /\ Done)
              => (result = RunErr(StrayError(stmt)) /\ output = <<"0">>)
        /\ (program = StrayInElse(stmt) /\ Done)
              => (result = RunErr(StrayError(stmt)) /\ output = <<>>)

\* C6: run never returns Ok when a signal reaches the top level of the
\* program: LoopBreak makes it fail with BreakNotWithinLoop, LoopContinue with
\* ContinueNotWithinLoop, FunctionReturn with ReturnNotWithinFunction, and
\* the statements after the one that produced the signal are not executed.
C6_StraySignalFailsRun == [][C6_Step]_vars /\ []C6_Programs

\* A break nested in a block and an if reached the top level: run failed and
\* only the statement before it printed.
C6_Witness ==
    /\ program = StrayNested(Break)
    /\ result = RunErr(BreakNotWithinLoop)
    /\ output = <<"0">>
    /\ environment = 1

AtCallReturn == Returns("signal", "function_invokation.block")

InLoop == \E k \in 1..Len(stack) : stack[k].f = "loop_stmt.block"

C7_Step ==
    AtCallReturn
       => /\ (ctrl.signal = Some(LoopBreak)) => result' = RunErr(BreakNotWithinLoop)
          /\ (ctrl.signal = Some(LoopContinue))
                => result' = RunErr(ContinueNotWithinLoop)

C7_Programs ==
    /\ (program = StrayInFunction(Break) /\ Done)
          => (result = RunErr(BreakNotWithinLoop) /\ output = <<>>)
    /\ (program = StrayInFunction(Continue) /\ Done)
          => (result = RunErr(ContinueNotWithinLoop) /\ output = <<>>)
    /\ (program = StrayDeepInFunction(Break) /\ Done)
          => (result = RunErr(BreakNotWithinLoop) /\ output = <<>>)
    /\ (program = StrayDeepInFunction(Continue) /\ Done)
          => (result = RunErr(ContinueNotWithinLoop) /\ output = <<>>)

\* C7: a LoopBreak or LoopContinue never crosses a function boundary: when
\* the body of a call ends with one, the call fails with BreakNotWithinLoop
\* or ContinueNotWithinLoop, so a break or continue in a function called from
\* inside a while loop neither ends nor continues the caller's loop.
C7_LoopSignalStopsAtFunctionBoundary == [][C7_Step]_vars /\ []C7_Programs

\* The body of a function called from inside a while loop ends with LoopBreak.
C7_Witness ==
    /\ program = StrayInFunction(Break)
    /\ AtCallReturn
    /\ ctrl.signal = Some(LoopBreak)
    /\ InLoop

C8_Step ==
    /\ AtCallReturn
          => /\ (ctrl.signal.some /\ ctrl.signal.v.sig = "FunctionReturn")
                   => (ctrl' = ReturnValue(ctrl.signal.v.value) /\ result' = Running)
             /\ ~ctrl.signal.some => (ctrl' = ReturnValue(Nil) /\ result' = Running)
    /\ (AtRunLoop /\ ctrl.signal.some /\ ctrl.signal.v.sig = "FunctionReturn")
          => (ctrl' = ctrl /\ stack' = Pop /\ output' = output)

C8_Programs ==
    /\ (program = StrayInFunction(Return(Num(7))) /\ Done)
          => (result = RunOk /\ output = <<"7", "1", "7", "2", "9">>)
    /\ (program = StrayDeepInFunction(Return(Num(7))) /\ Done)
          => (result = RunOk /\ output = <<"7">>)
    /\ (program = NoReturn /\ Done) => (result = RunOk /\ output = <<"1", "nil">>)
    /\ (program = ReturnFromLoop /\ Done) => (result = RunOk /\ output = <<"t", "f">>)
    /\ (program = TwoArguments /\ Done) => (result = RunOk /\ output = <<"2">>)

\* C8: the value of a function invocation is the value carried by the
\* FunctionReturn signal of its body, and Nil when the body ends without a
\* signal; the statements of the body after the one that produced
\* FunctionReturn are not executed.
C8_CallValueIsReturnedValue == [][C8_Step]_vars /\ []C8_Programs

\* The call f(3 1) has just returned the value its body's return carried.
C8_Witness ==
    /\ program = TwoArguments
    /\ Returns("value", "print_stmt")
    /\ ctrl.value = Integer(2)
    /\ environment = 1
    /\ Len(envs) = 3

\* The truthiness table (Boolean itself, Integer # 0, Float # 0.0, every
\* String true, Nil false).
Truthiness(v) ==
    CASE v.t = "Boolean" -> v.b
      [] v.t = "Integer" -> v.i # 0
      [] v.t = "Float" -> v.f.num # 0
      [] v.t = "String" -> TRUE
      [] OTHER -> FALSE

AtLeftOperand == Returns("value", "binary.left")
AtRightOperand == Returns("value", "binary.right")

ShortCircuits ==
    \/ Top.operator = "Conjunction" /\ ~Truthiness(ctrl.value)
    \/ Top.operator = "Disjunction" /\ Truthiness(ctrl.value)

C9_Step ==
    /\ AtLeftOperand
          => IF ShortCircuits
             THEN /\ ctrl' = ReturnValue(Boolean(Top.operator = "Disjunction"))
                  /\ stack' = Pop
                  /\ UNCHANGED <<envs, environment, output, result>>
             ELSE /\ ctrl' = Evaluate(Top.right_ast)
                  /\ Len(stack') = Len(stack)
                  /\ stack'[Len(stack')].f = "binary.right"
                  /\ UNCHANGED <<envs, environment, output, result>>
    /\ AtRightOperand
          => /\ ctrl'.m \in {"value", "done"}
             /\ Len(stack') < Len(stack)
             /\ UNCHANGED <<envs, environment, output>>

C9_Programs ==
    /\ (program = <<PrintStmt(Binary(Bool(FALSE), "Conjunction", OneByZero))>> /\ Done)
          => (result = RunOk /\ output = <<"false">>)
    /\ (program = <<PrintStmt(Binary(Bool(TRUE), "Disjunction", OneByZero))>> /\ Done)
          => (result = RunOk /\ output = <<"true">>)
    /\ (program = <<PrintStmt(Binary(Bool(TRUE), "Conjunction", OneByZero))>> /\ Done)
          => (result = RunErr(ZeroDivision) /\ output = <<>>)
    /\ (program = <<PrintStmt(Binary(Bool(FALSE), "Disjunction", OneByZero))>> /\ Done)
          => (result = RunErr(ZeroDivision) /\ output = <<>>)
    /\ (program = ShortCircuitEffect /\ Done)
          => (result = RunOk /\ output = <<"0", "1", "2">>)

\* C9: `and` and `or` short-circuit.  When the left operand of `and` is false
\* (of `or`: true) the right operand is never evaluated, so it causes neither
\* an error nor an effect, and the result is Boolean(false) (Boolean(true));
\* `false and (1/0)` and `true or (1/0)` do not fail with ZeroDivision.  In
\* every other case the right operand is evaluated exactly once.
C9_LogicOperatorsShortCircuit == [][C9_Step]_vars /\ []C9_Programs

\* `false and (1/0)` has its left operand: the right one is the division by 0.
C9_Witness ==
    /\ program = <<PrintStmt(Binary(Bool(FALSE), "Conjunction", OneByZero))>>
    /\ AtLeftOperand
    /\ ShortCircuits
    /\ Top.right_ast = OneByZero

IsZero(v) ==
    \/ v.t = "Integer" /\ v.i = 0
    \/ v.t = "Float" /\ v.f.num = 0

C10_Step ==
    (AtRightOperand /\ Top.operator = "Division" /\ IsZero(ctrl.value))
        => result' = RunErr(ZeroDivision)

\* 10, 0.5, "a", true, nil divided by 0 (the literals 0 and 0.0 are the same
\* f64) and by the Float(0.0) that 0.5 - 0.5 evaluates to
C10_Programs ==
    /\ \A l \in {Num(10), Half, Str("a"), Bool(TRUE), NilLit, FloatZero} :
       \A r \in {Num(0), FloatZero} :
          (program = <<PrintStmt(Binary(l, "Division", r))>> /\ Done)
              => (result = RunErr(ZeroDivision) /\ output = <<>>)
    /\ \A r \in {Num(0), FloatZero} :
          (/\ program = <<FunctionDeclaration("f", <<>>, Block(<<>>)),
                          PrintStmt(Binary(Identifier("f"), "Division", r))>>
           /\ Done) => result = RunErr(ZeroDivision)

\* C10: a division whose right operand evaluates to Integer(0) or Float(0.0)
\* fails with ZeroDivision and never with ExpectedNumberOperand, whatever the
\* type of the left operand; `10 / 0` and `10 / 0.0` fail with ZeroDivision.
C10_DivisionByZeroFailsWithZeroDivision == [][C10_Step]_vars /\ []C10_Programs

\* A String is about to be divided by Float(0.0).
C10_Witness ==
    /\ AtRightOperand
    /\ Top.operator = "Division"
    /\ Top.left.t = "String"
    /\ ctrl.value.t = "Float"
    /\ IsZero(ctrl.value)

AtLiteral == ctrl.m = "evaluate" /\ ctrl.expr.e = "Literal"

AtAddition == AtRightOperand /\ Top.operator = "Addition"

IsNumberValue(v) == v.t \in {"Integer", "Float"}

\* The sum of two numeric values as an f64
SumOf(l, r) ==
    f64_add(IF l.t = "Integer" THEN as_f64(l.i) ELSE l.f,
            IF r.t = "Integer" THEN as_f64(r.i) ELSE r.f)

C11_Step ==
    /\ (AtLiteral /\ ctrl.expr.literal.lit = "Number")
          => ctrl' = ReturnValue(IF ctrl.expr.literal.f.den = 1
                                 THEN Integer(ctrl.expr.literal.f.num)
                                 ELSE Float(ctrl.expr.literal.f))
    /\ (AtAddition /\ IsNumberValue(Top.left) /\ IsNumberValue(ctrl.value))
          => ctrl' = ReturnValue(
                        IF Top.left.t = "Integer" /\ ctrl.value.t = "Integer"
                        THEN Integer(Top.left.i + ctrl.value.i)
                        ELSE Float(SumOf(Top.left, ctrl.value)))
    /\ (program = OnePlusTwo /\ AtAddition)
          => (/\ Top.left = Integer(1)
              /\ ctrl.value = Integer(2)
              /\ ctrl' = ReturnValue(Integer(3)))

C11_Programs ==
    /\ (program = OnePlusTwo /\ Done) => (result = RunOk /\ output = <<"3">>)
    /\ (program = IntegerPlusFloat /\ Done)
          => (result = RunOk /\ output = <<"1.5", "3">>)

\* C11: `1 + 2` yields Integer(3), and so does `1 + 2.0`: a number literal
\* with zero fractional part evaluates to an Integer, whichever way it was
\* written.  Integer + Integer is an Integer; a sum with a Float operand (a
\* literal with a fractional part, or the result of Float arithmetic, even
\* when that result is whole) is tagged Float.
C11_LiteralTwoPointZeroIsInteger ==
    [][C11_Step]_vars /\ []C11_Programs

\* The right operand of `1 + 2.0` has been evaluated.
C11_Witness ==
    /\ program = OnePlusTwo
    /\ AtAddition
    /\ Top.left = Integer(1)
    /\ ctrl.value = Integer(2)

\* C11 as stated: `1 + 2.0` yields a value tagged Float, Float(3.0).
C11_AsStated ==
    [][(program = OnePlusTwo /\ AtAddition)
          => ctrl' = ReturnValue(Float(F64(3, 1)))]_vars

\* The types the truthiness table covers
InTruthinessTable(v) ==
    v.t \in {"Boolean", "Integer", "Float", "String", "Nil"}

AtNegation == Returns("value", "unary") /\ Top.operator = "Negation"

\* C16: unary `!` applied to a value v yields Boolean(not T(v)), T being the
\* truthiness table (Boolean b is b, Integer n is n # 0, Float f is f # 0.0,
\* every String is true, Nil is false); `!"a"` is false and `!nil` is true.
C16_NegationFollowsTruthiness ==
    [][(AtNegation /\ InTruthinessTable(ctrl.value))
          => ctrl' = ReturnValue(Boolean(~Truthiness(ctrl.value)))]_vars

AtIfCondition == Returns("value", "conditional_stmt")

\* C17: `if` runs `then` exactly when the condition is truthy by the table,
\* otherwise the alternative when there is one and nothing when there is
\* none; at most one branch runs and the statement's signal is the branch's.
C17_IfFollowsTruthiness ==
    [][(AtIfCondition /\ InTruthinessTable(ctrl.value))
          => /\ ctrl' = IF Truthiness(ctrl.value)
                        THEN ExecStatement(Top.then)
                        ELSE IF Top.alternative.some
                             THEN ExecStatement(Top.alternative.v)
                             ELSE ReturnSignal(None)
             /\ stack' = Pop
             /\ UNCHANGED <<envs, environment, output, result>>]_vars

OrderingOperators == {"Greater", "GreaterOrEqual", "Less", "LessOrEqual"}

AtOrdering == AtRightOperand /\ Top.operator \in OrderingOperators

\* C18: an ordering operator whose operands are not both numeric fails with
\* ExpectedNumberOperand; it yields a Boolean only when both are numeric.
C18_OrderingNeedsNumbers ==
    [][AtOrdering
          => IF IsNumberValue(Top.left) /\ IsNumberValue(ctrl.value)
             THEN ctrl'.m = "value" /\ ctrl'.value.t = "Boolean"
             ELSE result' = RunErr(ExpectedNumberOperand)]_vars

\* The callee of a call has been evaluated.
AtCallee == Returns("value", "function_invokation.callee")

C19_Step ==
    AtCallee
       => IF ctrl.value.t # "Callable"
          THEN /\ result' = RunErr(ExpressionNotCallable)
               /\ UNCHANGED <<envs, environment, output>>
          ELSE IF Len(Top.arguments) # Len(ctrl.value.parameters)
          THEN /\ result' = RunErr(InvalidArgumentCount(
                                      Len(Top.arguments),
                                      Len(ctrl.value.parameters)))
               /\ ctrl'.m = "done"
               /\ UNCHANGED <<envs, environment, output>>
          ELSE /\ result' = result
               /\ ctrl'.m = "arguments"

\* The argument `x = 1` is not evaluated, no environment is created and the
\* body prints nothing.
C19_Programs ==
    /\ (program = TooManyArguments /\ Done)
          => /\ result = RunErr(InvalidArgumentCount(1, 0))
             /\ envs[1].values["x"] = Integer(0)
             /\ Len(envs) = 1
             /\ output = <<>>
    /\ (program = TooFewWithEffect /\ Done)
          => /\ result = RunErr(InvalidArgumentCount(1, 2))
             /\ envs[1].values["x"] = Integer(0)
             /\ Len(envs) = 1
             /\ output = <<>>
    /\ (program = TooFewArguments /\ Done)
          => (result = RunErr(InvalidArgumentCount(0, 1)) /\ Len(envs) = 1)
    /\ (program \in {NotCallable, NotCallableLiteral} /\ Done)
          => (result = RunErr(ExpressionNotCallable) /\ Len(envs) = 1)

\* C19: calling a Callable with a number of arguments different from its
\* number of parameters fails with InvalidArgumentCount(got, expected), got
\* being the number of arguments and expected the number of parameters; the
\* check comes before the rest of the call: no argument is evaluated, no
\* environment is created and the body does not run.  Calling a value that
\* is not a Callable fails with ExpressionNotCallable.
C19_ArityIsCheckedFirst == [][C19_Step]_vars /\ []C19_Programs

\* g, which has two parameters, is about to be called with one argument.
C19_Witness ==
    /\ program = TooFewWithEffect
    /\ AtCallee
    /\ ctrl.value.t = "Callable"
    /\ Len(Top.arguments) = 1
    /\ Len(ctrl.value.parameters) = 2

\* The frames of the blocks and of the calls that have replaced the current
\* environment
IsScopeFrame(fr) == fr.f \in {"block", "function_invokation.block"}

ScopeFrames == {k \in 1..Len(stack) : IsScopeFrame(stack[k])}

\* The environment that is current inside the scope of frame k: the one the
\* next scope frame saved, or the current one when k is the innermost
EnvironmentInside(k) ==
    LET inner == {j \in ScopeFrames : j > k}
    IN  IF inner = {} THEN environment
        ELSE stack[CHOOSE j \in inner : \A i \in inner : j <= i].prev_environment

AtBlock == ctrl.m = "statement" /\ ctrl.stmt.s = "Block"
AtBlockEnd == Returns("signal", "block")

C20_Step ==
    \* a block or a call saves the environment that is current when it starts
    /\ (AtBlock \/ AtBodyStart)
          => /\ Len(stack') = Len(stack) + (IF AtBlock THEN 1 ELSE 0)
             /\ IsScopeFrame(stack'[Len(stack')])
             /\ stack'[Len(stack')].prev_environment = environment
             /\ environment' # environment
    \* a saved environment stays as it is while its frame is on the stack
    /\ \A k \in ScopeFrames :
          k <= Len(stack') => (k < Len(stack) => stack'[k] = stack[k])
    \* and it is the current one again when the block or the call completes
    /\ AtBlockEnd
          => /\ environment' = Top.prev_environment
             /\ stack' = Pop
             /\ ctrl' = ctrl
             /\ result' = result
    /\ (AtCallReturn /\ result' = result)
          => (environment' = Top.prev_environment /\ stack' = Pop)

C20_Discipline ==
    /\ ~Done
          => /\ (ScopeFrames = {}) => environment = 1
             /\ \A k \in ScopeFrames :
                   /\ (\A j \in ScopeFrames : k <= j)
                         => stack[k].prev_environment = 1
                   /\ stack[k].f = "block"
                         => envs[EnvironmentInside(k)].enclosing
                               = Some(stack[k].prev_environment)
    /\ (Done /\ result = RunOk) => environment = 1

\* C20: environment stack discipline.  After a Block or a function invocation
\* completes without a runtime error (normally, or with LoopBreak,
\* LoopContinue or FunctionReturn) the current environment is the same
\* instance as before it started; whenever run returns Ok the current
\* environment is the global one.
C20_EnvironmentIsRestored == [][C20_Step]_vars /\ []C20_Discipline

\* A block inside a function body inside a loop ends with a return signal.
C20_Witness ==
    /\ AtBlockEnd
    /\ ctrl.signal.some
    /\ ctrl.signal.v.sig = "FunctionReturn"
    /\ Top.prev_environment # 1
    /\ environment # Top.prev_environment

AtLoopSignal == Returns("signal", "loop_stmt.block")

\* the body of the while loop on top of the stack starts
BodyStarts ==
    /\ ctrl'.m = "statement"
    /\ stack' # <<>>
    /\ stack'[Len(stack')].f = "loop_stmt.block"
    /\ ctrl'.stmt = stack'[Len(stack')].block

C21_Step ==
    /\ (ctrl.m = "statement" /\ ctrl.stmt.s = "While")
          => (ctrl' = Evaluate(ctrl.stmt.condition) /\ ~BodyStarts)
    /\ BodyStarts
          => (Returns("value", "loop_stmt.condition") /\ Truthiness(ctrl.value))
    /\ (AtLoopSignal /\ ctrl.signal = Some(LoopBreak))
          => (ctrl' = ReturnSignal(None) /\ stack' = Pop)
    /\ (AtLoopSignal /\ ctrl.signal = Some(LoopContinue))
          => /\ ctrl' = Evaluate(Top.condition)
             /\ stack' = Append(Pop, [Top EXCEPT !.f = "loop_stmt.condition"])
    /\ (AtLoopSignal /\ ctrl.signal.some /\ ctrl.signal.v.sig = "FunctionReturn")
          => (ctrl' = ctrl /\ stack' = Pop)

C21_Programs ==
    /\ (program = LoopBreaks /\ Done) => (result = RunOk /\ output = <<"b", "1">>)
    /\ (program = LoopContinues /\ Done)
          => (result = RunOk /\ output = <<"1", "2", "3">>)
    /\ (program = LoopReturns /\ Done) => (result = RunOk /\ output = <<"1">>)
    /\ (program = LoopNever /\ Done) => (result = RunOk /\ output = <<"1">>)
    /\ (program = LoopInLoop /\ Done) => (result = RunOk /\ output = <<"1", "2">>)
    /\ (program = LoopSignals /\ Done)
          => (result = RunOk /\ output = <<"2", "end">>)

\* C21: a while loop handles every signal of its body: on LoopBreak it ends
\* without evaluating the condition again and on LoopContinue it leaves the
\* rest of the body out and evaluates the condition again, and in both cases
\* the while statement itself produces no signal; on FunctionReturn(v) it
\* ends at once and produces FunctionReturn(v).  The condition is evaluated
\* before every iteration, the first included.
C21_WhileHandlesEverySignal == [][C21_Step]_vars /\ []C21_Programs

\* The body of a while loop inside a function has ended with a return.
C21_Witness ==
    /\ program = LoopReturns
    /\ AtLoopSignal
    /\ ctrl.signal = Some(FunctionReturn(Integer(1)))

AtStatementEnd == Returns("signal", "_run")

\* the frames at which a signal is acted on
SignalHandlers == {"loop_stmt.block", "function_invokation.block", "run"}

C22_Step ==
    /\ (ctrl.m = "_run" /\ ctrl.statements # <<>>)
          => /\ ctrl' = ExecStatement(Head(ctrl.statements))
             /\ stack' = Push([f |-> "_run", rest |-> Tail(ctrl.statements)])
    /\ (AtStatementEnd /\ ~ctrl.signal.some)
          => (ctrl' = [m |-> "_run", statements |-> Top.rest] /\ stack' = Pop)
    /\ (ctrl.m = "signal" /\ ctrl.signal.some /\ stack # <<>>
           /\ Top.f \notin SignalHandlers)
          => /\ Top.f \in {"_run", "block"}
             /\ ctrl' = ctrl
             /\ stack' = Pop
             /\ output' = output
             /\ envs' = envs
             /\ result' = result
    /\ (ctrl.m = "statement" /\ ctrl'.m = "signal" /\ ctrl'.signal.some)
          => ctrl.stmt.s \in {"Break", "Continue"}

C22_Programs ==
    /\ (program = SignalDeepInLoop(Break) /\ Done)
          => (result = RunOk /\ output = <<"1">>)
    /\ (program = SignalDeepInLoop(Continue) /\ Done)
          => (result = RunOk /\ output = <<"2">>)
    /\ (program = StrayDeepInFunction(Return(Num(7))) /\ Done)
          => (result = RunOk /\ output = <<"7">>)
    /\ \A s \in SignalStatements :
          (program = StrayNested(s) /\ Done)
              => (result = RunErr(StrayError(s)) /\ output = <<"0">>)

\* C22: a Block executes its statements in order and stops at the first one
\* that produces a signal: no statement after it is executed and the Block
\* produces exactly that signal.  Nested Blocks and if statements pass a
\* signal on unchanged and without acting on it, until it reaches a while
\* loop, a function boundary or the top level.
C22_BlockStopsAtFirstSignal == [][C22_Step]_vars /\ []C22_Programs

\* A continue inside an if inside a block inside a loop body leaves the
\* inner block, which has a statement left.
C22_Witness ==
    /\ program = SignalDeepInLoop(Continue)
    /\ AtStatementEnd
    /\ ctrl.signal = Some(LoopContinue)
    /\ Top.rest = <<PrintStmt(Str("b"))>>
    /\ Len(envs) = 7

AtTernaryCondition == Returns("value", "conditional")

\* C23: the ternary expression `c ? a : b` branches exactly like the if
\* statement: for every condition value of the truthiness table it
\* evaluates `then` if and only if an if statement with the same condition
\* executes its `then` block, and the alternative otherwise; only the chosen
\* operand is evaluated.
C23_TernaryBranchesLikeIf ==
    [][(AtTernaryCondition /\ InTruthinessTable(ctrl.value))
          => /\ ctrl' = IF conditional_stmt_test(ctrl.value).v
                        THEN Evaluate(Top.then)
                        ELSE Evaluate(Top.alternative)
             /\ stack' = Pop]_vars

\* The step makes a runtime error.
Fails == result = Running /\ result'.state = "Err"

C26_Step ==
    Fails
       => /\ ctrl'.m = "done"
          /\ stack' = <<>>
          /\ output' = output
          /\ environment' = IF AtCallReturn THEN Top.prev_environment
                            ELSE environment

C26_Programs ==
    /\ (program = ErrorInBlock /\ Done)
          => /\ result = RunErr(ZeroDivision)
             /\ output = <<"1">>
             /\ environment = 3
             /\ ChainOf(envs, 3) = <<3, 2, 1>>
    /\ (program = ErrorInFunction /\ Done)
          => /\ result = RunErr(VariableNotDefined("x"))
             /\ output = <<"1">>
             /\ environment = 4
             /\ ChainOf(envs, 4) = <<4, 3, 1>>
             /\ Bound(envs, 3) = {"a"}
    /\ (program = ErrorInLoop /\ Done)
          => /\ result = RunErr(ExpectedNumberOperand)
             /\ output = <<>>
             /\ environment = 4
             /\ envs[4].values["i"] = String("a")
             /\ envs[1].values["i"] = Integer(2)

\* C26: when a statement inside a Block or a function body fails with a
\* runtime error, the error is returned at once (no further output, nothing
\* left to run) and the current environment is not restored: it stays the
\* inner environment of the failing block or call.
C26_ErrorLeavesInnerEnvironment == [][C26_Step]_vars /\ []C26_Programs

\* The body of f, called from inside a block, has failed: the environment
\* of the body is still the current one.
C26_Witness ==
    /\ program = ErrorInFunction
    /\ Done
    /\ result = RunErr(VariableNotDefined("x"))
    /\ environment = 4

\* The environment that is current after the step did not exist before it,
\* binds nothing and is chained to `enclosing`.
FreshEnvironment(enclosing) ==
    /\ Len(envs') = Len(envs) + 1
    /\ environment' = Len(envs')
    /\ SubSeq(envs', 1, Len(envs)) = envs
    /\ Bound(envs', environment') = {}
    /\ envs'[environment'].enclosing = Some(enclosing)

C27_Step ==
    /\ AtBlock => FreshEnvironment(environment)
    /\ (Returns("value", "loop_stmt.condition") /\ Truthiness(ctrl.value))
          => (ctrl' = ExecStatement(Top.block) /\ Top.block.s = "Block")
    /\ AtBodyStart
          => /\ ctrl' = ExecStatement(Block(Top.callee.execute))
             /\ environment' = Top.environment
    /\ (AtCallee /\ result' = Running)
          => /\ Len(envs') = Len(envs) + 1
             /\ stack'[Len(stack')].environment = Len(envs')
             /\ Bound(envs', Len(envs')) = {}
    /\ (AtVarDefine /\ program \in FreshPrograms) => result' = Running

C27_Programs ==
    /\ (program = VarInLoop /\ Done) => (result = RunOk /\ output = <<"0", "1">>)
    /\ (program = VarOfEarlierIteration /\ Done)
          => (result = RunErr(VariableNotDefined("v")) /\ output = <<>>)
    /\ (program = VarInRecursion /\ Done)
          => (result = RunOk /\ output = <<"2", "1", "2">>)
    /\ (program = VarOfEarlierCall /\ Done)
          => (result = RunErr(VariableNotDefined("v")) /\ output = <<>>)

\* C27: every execution of a block body starts in a newly created
\* environment that binds nothing: each iteration of a while loop and each
\* invocation of a function gets its own, so a `var` in a loop body or a
\* function body never fails with VariableAlreadyDefined because of an
\* earlier iteration or an earlier or still active invocation, and the value
\* it had there is never visible.
C27_BlockBodyStartsFresh == [][C27_Step]_vars /\ []C27_Programs

\* The body of the recursive call f(2) declares v while the v of f(1) is
\* still bound in the environment of the caller's body.
C27_Witness ==
    /\ program = VarInRecursion
    /\ AtVarDefine
    /\ Top.identifier = "v"
    /\ ctrl.value = Integer(2)
    /\ Len(envs) = 6
    /\ envs[3].values["v"] = Integer(1)

\* The next argument of a call is about to be evaluated.
AtArgument == ctrl.m = "arguments" /\ Top.idx <= Len(Top.arguments)

\* The first j parameters of the call on top of the stack
Parameters(j) == {Top.callee.parameters[k] : k \in 1..j}

C28_Step ==
    \* the environment of the parameters is chained to the closure
    /\ (AtCallee /\ result' = Running)
          => /\ envs'[Len(envs')].enclosing = Some(ctrl.value.closure)
             /\ stack'[Len(stack')].environment = Len(envs')
             /\ environment' = environment
    \* the arguments are evaluated in order in the caller's environment
    /\ AtArgument
          => /\ ctrl' = Evaluate(Top.arguments[Top.idx])
             /\ environment' = environment
             /\ environment # Top.environment
             /\ Bound(envs, Top.environment) = Parameters(Top.idx - 1)
    \* and each is bound to its parameter in the environment of the call
    /\ AtParameterDefine
          => LET name == Top.callee.parameters[Top.idx]
             IN  IF name \in Parameters(Top.idx - 1)
                 THEN result' = RunErr(VariableAlreadyDefined(name))
                 ELSE /\ envs'[Top.environment].values[name] = ctrl.value
                      /\ stack'[Len(stack')].idx = Top.idx + 1
                      /\ environment' = environment
    \* the body is a block entered in the environment of the parameters
    /\ AtBodyStart
          => /\ environment # Top.environment
             /\ environment' = Top.environment
             /\ ctrl' = ExecStatement(Block(Top.callee.execute))
    /\ (AtBlock /\ stack # <<>> /\ Top.f = "function_invokation.block")
          => /\ envs'[environment'].enclosing = Some(environment)
             /\ environment' # environment

C28_Programs ==
    /\ (program = ParameterShadowed /\ Done)
          => /\ result = RunOk
             /\ output = <<"2">>
             /\ envs[2].values["a"] = Integer(1)
             /\ envs[3].values["a"] = Integer(2)
    /\ (program = DuplicateParameterCalled /\ Done)
          => (result = RunErr(VariableAlreadyDefined("a")) /\ output = <<"1">>)
    /\ (program = DuplicateParameter /\ Done)
          => result = RunErr(VariableAlreadyDefined("a"))
    /\ (program = ArgumentsInOrder /\ Done)
          => (result = RunOk /\ output = <<"1", "2", "10", "2">>)

AtEquality == AtRightOperand /\ Top.operator \in {"Equal", "NotEqual"}

\* The number a numeric value stands for, as a fraction
Numerator(v) == IF v.t = "Integer" THEN v.i ELSE v.f.num
Denominator(v) == IF v.t = "Integer" THEN 1 ELSE v.f.den

\* The pairs of operands for which `==` is to be true
Equals(l, r) ==
    \/ /\ IsNumberValue(l) /\ IsNumberValue(r)
       /\ Numerator(l) * Denominator(r) = Numerator(r) * Denominator(l)
    \/ l.t = "String" /\ r.t = "String" /\ l.s = r.s
    \/ l.t = "Boolean" /\ r.t = "Boolean" /\ l.b = r.b

C29_Step ==
    AtEquality
       => /\ ctrl' = ReturnValue(Boolean(IF Top.operator = "Equal"
                                         THEN Equals(Top.left, ctrl.value)
                                         ELSE ~Equals(Top.left, ctrl.value)))
          /\ result' = Running
          /\ stack' = Pop

\* C29: `==` yields Boolean(true) only when both operands are numeric and
\* numerically equal (an Integer and a Float are compared as numbers), both
\* are Strings with the same text, or both are Booleans with the same value;
\* for every other pair, Nil with Nil and every pair of different non-numeric
\* types included, it yields Boolean(false).  `a != b` is always the negation
\* of `a == b`, so `nil != nil` is true.  Neither operator ever fails.
C29_EqualityOfValues == [][C29_Step]_vars

\* `nil != nil` is about to be computed.
C29_Witness ==
    /\ AtEquality
    /\ Top.operator = "NotEqual"
    /\ Top.left = Nil
    /\ ctrl.value = Nil

(***************************************************************************)
(* The parser.  Parser::run is a recursive descent over `tokens` that      *)
(* moves the one cursor `current`.  The parsing functions of the source   *)
(* call each other; here `calls` holds one frame per call that waits for  *)
(* the call it made, with the locals it has bound so far and `let`, the   *)
(* local the awaited result is bound to.  `pc` is either at the start of  *)
(* a function or at the head of one of its loops, or it carries the value *)
(* a call has just returned with Ok.  An Err is passed on by the `?` of   *)
(* every caller, so that constructing an error ends the run.              *)
(***************************************************************************)
\* lexer::token::Token (the line is not used by the parser)
Token(token_type, lexeme) == [token_type |-> token_type, lexeme |-> lexeme]
NumberToken(n, d) ==
    [token_type |-> "Number", lexeme |-> f64_display(F64(n, d)),
     number |-> F64(n, d)]
StringToken(s) ==
    [token_type |-> "String", lexeme |-> "\"" \o s \o "\"", string |-> s]
IdentifierToken(name) == Token("Identifier", name)
EOF == Token("EOF", "")

\* ParserErrorKind
TokenExpected(c) == [kind |-> "TokenExpected", expected |-> c]
ExpressionExprected == [kind |-> "ExpressionExprected"]
MissingLeftHandOperand == [kind |-> "MissingLeftHandOperand"]
IdentifierExpected == [kind |-> "IdentifierExpected"]

\* impl TryFrom<&Token> for Operator
Operator_try_from(token) ==
    CASE token.token_type = "EqualEqual" -> "Equal"
      [] token.token_type = "BangEqual" -> "NotEqual"
      [] token.token_type = "And" -> "Conjunction"
      [] token.token_type = "Bang" -> "Negation"
      [] token.token_type = "Equal" -> "Assignment"
      [] token.token_type = "Or" -> "Disjunction"
      [] token.token_type = "Greater" -> "Greater"
      [] token.token_type = "GreaterEqual" -> "GreaterOrEqual"
      [] token.token_type = "Less" -> "Less"
      [] token.token_type = "LessEqual" -> "LessOrEqual"
      [] token.token_type = "Minus" -> "Subtraction"
      [] token.token_type = "Plus" -> "Addition"
      [] token.token_type = "Star" -> "Multiplication"
      [] token.token_type = "Slash" -> "Division"

\* Parser::peek: tokens.get(current)
Parser_peek(ts, cur) == IF cur < Len(ts) THEN Some(ts[cur + 1]) ELSE None

\* Parser::previous: tokens.get(current - 1), unwrapped by its callers
Parser_previous(ts, cur) == ts[cur]

\* Parser::check
Parser_check(ts, cur, token_type) ==
    LET token == Parser_peek(ts, cur)
    IN  IF token.some THEN token.v.token_type = token_type ELSE FALSE

\* Parser::check_many
Parser_check_many(ts, cur, token_types) ==
    LET token == Parser_peek(ts, cur)
    IN  IF token.some THEN token.v.token_type \in token_types ELSE FALSE

\* Parser::is_at_end
Parser_is_at_end(ts, cur) ==
    LET token == Parser_peek(ts, cur)
    IN  IF token.some THEN token.v.token_type = "EOF" ELSE FALSE

\* Parser::advance_by
Parser_advance_by(cur, advance) == cur + advance

\* Parser::match_token: whether one of the types matched, and the cursor
Parser_match_token(ts, cur, token_types) ==
    IF \E token_type \in token_types : Parser_check(ts, cur, token_type)
    THEN [matched |-> TRUE, cur |-> Parser_advance_by(cur, 1)]
    ELSE [matched |-> FALSE, cur |-> cur]

\* What Parser::run has returned: nothing yet, Ok(statements) or Err(error)
Parsing == [state |-> "parsing"]
ParseOk(statements) == [state |-> "Ok", statements |-> statements]
ParseErr(error) == [state |-> "Err", error |-> error]

\* The runtime is not touched while the parser runs.
runtime == <<program, envs, environment, stack, ctrl, output, result>>

\* pc: at the start of a function or at the head of a loop
At(label) == [m |-> "at", label |-> label]
\* pc: the call just made has returned Ok(v)
Returning(v) == [m |-> "return", v |-> v]
\* pc: run has returned
Returned == [m |-> "returned"]

\* The frame of the innermost waiting call, and the frames of its callers
Frame == calls[Len(calls)]
Callers == SubSeq(calls, 1, Len(calls) - 1)

\* The call made to bind the local `let` of function f has returned Ok.
Binds(f, let) ==
    /\ pc.m = "return"
    /\ calls # <<>>
    /\ Frame.f = f
    /\ Frame.let = let

\* The parser goes on at p with the cursor at cur and the frames fs.
Go(cur, fs, p) ==
    /\ cursor' = cur
    /\ calls' = fs
    /\ pc' = p
    /\ UNCHANGED <<tokens, outcome, runtime>>

\* construct_error after which run returns the statements parsed before it
Parser_construct_error_keeps(kind, cur) ==
    /\ cursor' = cur
    /\ calls' = <<>>
    /\ pc' = Returned
    /\ outcome' = ParseOk(calls[1].statements)
    /\ UNCHANGED <<tokens, runtime>>

\* `return Err(self.construct_error(kind))` with the cursor at cur: every
\* waiting call passes the Err on with its `?` (or returns it as its own
\* result), program drops its statements, and run returns the Err.
Parser_construct_error(kind, cur) ==
    /\ cursor' = cur
    /\ calls' = <<>>
    /\ pc' = Returned
    /\ outcome' = ParseErr(kind)
    /\ UNCHANGED <<tokens, runtime>>

\* Parser::run
Parser_run ==
    /\ pc = At("run")
    /\ Go(cursor, calls, At("program"))

\* Parser::program
Parser_program ==
    \* line 29.  `from` is not a local of the source: it is
    \* the cursor at which the current iteration of the loop began.
    \/ /\ pc = At("program")
       /\ Go(cursor,
             Append(calls, [f |-> "program", let |-> "declaration",
                            statements |-> <<>>, from |-> cursor]),
             At("program.while"))
    \* the loop test at line 31 and the return at line 35
    \/ /\ pc = At("program.while")
       /\ IF ~Parser_is_at_end(tokens, cursor)
          THEN Go(cursor, Append(Callers, [Frame EXCEPT !.from = cursor]),
                  At("declaration"))
          ELSE /\ outcome' = ParseOk(Frame.statements)
               /\ calls' = Callers
               /\ pc' = Returned
               /\ UNCHANGED <<tokens, cursor, runtime>>
    \* line 32: `statements.push(Rc::new(self.declaration()?))`
    \/ /\ Binds("program", "declaration")
       /\ Go(cursor,
             Append(Callers, [Frame EXCEPT !.statements = Append(@, pc.v)]),
             At("program.while"))

\* Parser::declaration
Parser_declaration ==
    /\ pc = At("declaration")
    /\ LET var == Parser_match_token(tokens, cursor, {"Var"})
           fun == Parser_match_token(tokens, cursor, {"Fun"})
       IN  IF var.matched THEN Go(var.cur, calls, At("var_decl"))
           ELSE IF fun.matched THEN Go(fun.cur, calls, At("fun_decl"))
           ELSE Go(cursor, calls, At("statement"))

\* Parser::fun_decl
Parser_fun_decl ==
    \* lines 49-59
    \/ /\ pc = At("fun_decl")
       /\ LET name == Parser_match_token(tokens, cursor, {"Identifier"})
              identifier == Parser_previous(tokens, name.cur).lexeme
              paren == Parser_match_token(tokens, name.cur, {"LeftParen"})
          IN  IF ~name.matched
              THEN Parser_construct_error(IdentifierExpected, name.cur)
              ELSE IF ~paren.matched
              THEN Parser_construct_error(TokenExpected("("), paren.cur)
              ELSE Go(paren.cur,
                      Append(calls, [f |-> "fun_decl", let |-> "parameters",
                                     identifier |-> identifier]),
                      At("parameters"))
    \* lines 59-65
    \/ /\ Binds("fun_decl", "parameters")
       /\ LET brace == Parser_match_token(tokens, cursor, {"LeftBrace"})
          IN  IF ~brace.matched
              THEN Parser_construct_error(TokenExpected("{"), brace.cur)
              ELSE Go(brace.cur,
                      Append(Callers, [f |-> "fun_decl", let |-> "execute",
                                       identifier |-> Frame.identifier,
                                       parameters |-> pc.v]),
                      At("block"))
    \* lines 65-71
    \/ /\ Binds("fun_decl", "execute")
       /\ Go(cursor, Callers,
             Returning(FunctionDeclaration(Frame.identifier, Frame.parameters,
                                           pc.v)))

\* parameters that takes a comma after an identifier
Parser_parameters_separated ==
    \/ /\ pc = At("parameters")
       /\ Go(cursor,
             Append(calls, [f |-> "parameters", let |-> "identifier",
                            parameters |-> <<>>]),
             At("parameters.while"))
    \/ /\ pc = At("parameters.while")
       /\ IF ~Parser_is_at_end(tokens, cursor)
             /\ ~Parser_check(tokens, cursor, "RightParen")
          THEN LET name == Parser_match_token(tokens, cursor, {"Identifier"})
                   identifier == Parser_previous(tokens, name.cur).lexeme
                   comma == Parser_match_token(tokens, name.cur, {"Comma"})
               IN  IF ~name.matched
                   THEN Parser_construct_error(IdentifierExpected, name.cur)
                   ELSE Go(comma.cur,
                           Append(Callers,
                                  [Frame EXCEPT
                                      !.parameters = Append(@, identifier)]),
                           pc)
          ELSE LET paren == Parser_match_token(tokens, cursor, {"RightParen"})
               IN  IF ~paren.matched
                   THEN Parser_construct_error(TokenExpected(")"), paren.cur)
                   ELSE Go(paren.cur, Callers, Returning(Frame.parameters))

\* Parser::parameters
Parser_parameters ==
    \* line 75
    \/ /\ pc = At("parameters")
       /\ Go(cursor,
             Append(calls, [f |-> "parameters", let |-> "identifier",
                            parameters |-> <<>>]),
             At("parameters.while"))
    \* one iteration of the loop at lines 77-85, or what
    \* follows the loop
    \/ /\ pc = At("parameters.while")
       /\ IF ~Parser_is_at_end(tokens, cursor)
             /\ ~Parser_check(tokens, cursor, "RightParen")
          THEN LET name == Parser_match_token(tokens, cursor, {"Identifier"})
                   identifier == Parser_previous(tokens, name.cur).lexeme
               IN  IF ~name.matched
                   THEN Parser_construct_error(IdentifierExpected, name.cur)
                   ELSE Go(name.cur,
                           Append(Callers,
                                  [Frame EXCEPT
                                      !.parameters = Append(@, identifier)]),
                           pc)
          ELSE LET paren == Parser_match_token(tokens, cursor, {"RightParen"})
               IN  IF ~paren.matched
                   THEN Parser_construct_error(TokenExpected(")"), paren.cur)
                   ELSE Go(paren.cur, Callers, Returning(Frame.parameters))

\* Parser::var_decl
Parser_var_decl ==
    \* lines 95-105
    \/ /\ pc = At("var_decl")
       /\ LET name == Parser_match_token(tokens, cursor, {"Identifier"})
              identifier == Parser_previous(tokens, name.cur).lexeme
              equal == Parser_match_token(tokens, name.cur, {"Equal"})
          IN  IF ~name.matched
              THEN Parser_construct_error(IdentifierExpected, name.cur)
              ELSE IF ~equal.matched
              THEN Parser_construct_error(TokenExpected("="), equal.cur)
              ELSE Go(equal.cur,
                      Append(calls, [f |-> "var_decl", let |-> "expression",
                                     identifier |-> identifier]),
                      At("expression"))
    \* lines 105-114
    \/ /\ Binds("var_decl", "expression")
       /\ LET semicolon == Parser_match_token(tokens, cursor, {"Semicolon"})
          IN  IF ~semicolon.matched
              THEN Parser_construct_error(TokenExpected(";"), semicolon.cur)
              ELSE Go(semicolon.cur, Callers,
                      Returning(VariableDeclaration(Frame.identifier, pc.v)))

\* Parser::statement
Parser_statement ==
    /\ pc = At("statement")
    /\ LET match(token_type) ==
               Parser_match_token(tokens, cursor, {token_type}).matched
           advanced == Parser_advance_by(cursor, 1)
       IN  IF match("Print") THEN Go(advanced, calls, At("print_stmt"))
           ELSE IF match("LeftBrace") THEN Go(advanced, calls, At("block"))
           ELSE IF match("If") THEN Go(advanced, calls, At("if_stmt"))
           ELSE IF match("While") THEN Go(advanced, calls, At("while_stmt"))
           ELSE IF match("Break") THEN Go(advanced, calls, At("break_stmt"))
           ELSE IF match("Continue")
           THEN Go(advanced, calls, At("continue_stmt"))
           ELSE Go(cursor, calls, At("expr_stmt"))

\* Parser::break_stmt
Parser_break_stmt ==
    /\ pc = At("break_stmt")
    /\ LET semicolon == Parser_match_token(tokens, cursor, {"Semicolon"})
       IN  IF ~semicolon.matched
           THEN Parser_construct_error(TokenExpected(";"), semicolon.cur)
           ELSE Go(semicolon.cur, calls, Returning(Break))

\* Parser::continue_stmt
Parser_continue_stmt ==
    /\ pc = At("continue_stmt")
    /\ LET semicolon == Parser_match_token(tokens, cursor, {"Semicolon"})
       IN  IF ~semicolon.matched
           THEN Parser_construct_error(TokenExpected(";"), semicolon.cur)
           ELSE Go(semicolon.cur, calls, Returning(Continue))

\* Parser::while_stmt
Parser_while_stmt ==
    \* line 152
    \/ /\ pc = At("while_stmt")
       /\ Go(cursor, Append(calls, [f |-> "while_stmt", let |-> "condition"]),
             At("expression"))
    \* lines 152-158
    \/ /\ Binds("while_stmt", "condition")
       /\ LET brace == Parser_match_token(tokens, cursor, {"LeftBrace"})
          IN  IF ~brace.matched
              THEN Parser_construct_error(TokenExpected("{"), brace.cur)
              ELSE Go(brace.cur,
                      Append(Callers, [f |-> "while_stmt", let |-> "block",
                                       condition |-> pc.v]),
                      At("block"))
    \* lines 158-163
    \/ /\ Binds("while_stmt", "block")
       /\ Go(cursor, Callers, Returning(While(Frame.condition, pc.v)))

\* Parser::if_stmt
Parser_if_stmt ==
    \* line 167
    \/ /\ pc = At("if_stmt")
       /\ Go(cursor, Append(calls, [f |-> "if_stmt", let |-> "condition"]),
             At("expression"))
    \* lines 167-171
    \/ /\ Binds("if_stmt", "condition")
       /\ LET brace == Parser_match_token(tokens, cursor, {"LeftBrace"})
          IN  IF ~brace.matched
              THEN Parser_construct_error(TokenExpected("{"), brace.cur)
              ELSE Go(brace.cur,
                      Append(Callers, [f |-> "if_stmt", let |-> "then",
                                       condition |-> pc.v]),
                      At("block"))
    \* lines 171-185: `then` is bound; the alternative, if
    \* any, is a block after `else` or the statement that starts with `if`
    \/ /\ Binds("if_stmt", "then")
       /\ LET else == Parser_match_token(tokens, cursor, {"Else"})
              brace == Parser_match_token(tokens, else.cur, {"LeftBrace"})
              waiting == Append(Callers, [f |-> "if_stmt", let |-> "alternative",
                                          condition |-> Frame.condition,
                                          then |-> pc.v])
          IN  IF else.matched
              THEN IF ~Parser_check(tokens, else.cur, "If")
                   THEN IF ~brace.matched
                        THEN Parser_construct_error(TokenExpected("{"),
                                                    brace.cur)
                        ELSE Go(brace.cur, waiting, At("block"))
                   ELSE Go(else.cur, waiting, At("statement"))
              ELSE Go(cursor, Callers,
                      Returning(ConditionalStmt(Frame.condition, pc.v, None)))
    \* lines 176-191: the alternative is bound
    \/ /\ Binds("if_stmt", "alternative")
       /\ Go(cursor, Callers,
             Returning(ConditionalStmt(Frame.condition, Frame.then,
                                       Some(pc.v))))

\* Parser::block
Parser_block ==
    \* line 195.  `from` is the cursor at which the current
    \* iteration of the loop began.
    \/ /\ pc = At("block")
       /\ Go(cursor,
             Append(calls, [f |-> "block", let |-> "declaration",
                            statements |-> <<>>, from |-> cursor]),
             At("block.while"))
    \* the loop test at line 197 and lines 201-205
    \/ /\ pc = At("block.while")
       /\ IF ~Parser_is_at_end(tokens, cursor)
             /\ ~Parser_check(tokens, cursor, "RightBrace")
          THEN Go(cursor, Append(Callers, [Frame EXCEPT !.from = cursor]),
                  At("declaration"))
          ELSE LET brace == Parser_match_token(tokens, cursor, {"RightBrace"})
               IN  IF ~brace.matched
                   THEN Parser_construct_error(TokenExpected("}"), brace.cur)
                   ELSE Go(brace.cur, Callers,
                           Returning(Block(Frame.statements)))
    \* line 198: `statements.push(Rc::new(self.declaration()?))`
    \/ /\ Binds("block", "declaration")
       /\ Go(cursor,
             Append(Callers, [Frame EXCEPT !.statements = Append(@, pc.v)]),
             At("block.while"))

\* Parser::expr_stmt
Parser_expr_stmt ==
    \* line 209
    \/ /\ pc = At("expr_stmt")
       /\ Go(cursor, Append(calls, [f |-> "expr_stmt", let |-> "expression"]),
             At("expression"))
    \* lines 209-215
    \/ /\ Binds("expr_stmt", "expression")
       /\ LET semicolon == Parser_match_token(tokens, cursor, {"Semicolon"})
          IN  IF semicolon.matched
              THEN Go(semicolon.cur, Callers, Returning(ExpressionStmt(pc.v)))
              ELSE Parser_construct_error(TokenExpected(";"), semicolon.cur)

\* Parser::print_stmt
Parser_print_stmt ==
    \* line 219
    \/ /\ pc = At("print_stmt")
       /\ Go(cursor, Append(calls, [f |-> "print_stmt", let |-> "expression"]),
             At("expression"))
    \* lines 219-225
    \/ /\ Binds("print_stmt", "expression")
       /\ LET semicolon == Parser_match_token(tokens, cursor, {"Semicolon"})
          IN  IF semicolon.matched
              THEN Go(semicolon.cur, Callers, Returning(PrintStmt(pc.v)))
              ELSE Parser_construct_error(TokenExpected(";"), semicolon.cur)

\* Parser::expression
Parser_expression ==
    /\ pc = At("expression")
    /\ Go(cursor, calls, At("assignment"))

\* Parser::assignment
Parser_assignment ==
    \* line 233
    \/ /\ pc = At("assignment")
       /\ Go(cursor, Append(calls, [f |-> "assignment", let |-> "expr"]),
             At("ternary"))
    \* lines 233-244
    \/ /\ Binds("assignment", "expr")
       /\ LET equal == Parser_match_token(tokens, cursor, {"Equal"})
          IN  IF ~equal.matched THEN Go(cursor, Callers, Returning(pc.v))
              ELSE IF pc.v.e # "Identifier"
              THEN Parser_construct_error(IdentifierExpected, equal.cur)
              ELSE Go(equal.cur,
                      Append(Callers, [f |-> "assignment", let |-> "expression",
                                       identifier |-> pc.v.name]),
                      At("expression"))
    \* lines 244-249
    \/ /\ Binds("assignment", "expression")
       /\ Go(cursor, Callers, Returning(Assignment(Frame.identifier, pc.v)))

\* Parser::ternary
Parser_ternary ==
    \* line 253
    \/ /\ pc = At("ternary")
       /\ Go(cursor, Append(calls, [f |-> "ternary", let |-> "expr"]),
             At("logic_or"))
    \* lines 253-256 and 270
    \/ /\ Binds("ternary", "expr")
       /\ LET question == Parser_match_token(tokens, cursor, {"Question"})
          IN  IF question.matched
              THEN Go(question.cur,
                      Append(Callers, [f |-> "ternary", let |-> "then",
                                       expr |-> pc.v]),
                      At("logic_or"))
              ELSE Go(cursor, Callers, Returning(pc.v))
    \* lines 256-261
    \/ /\ Binds("ternary", "then")
       /\ LET colon == Parser_match_token(tokens, cursor, {"Colon"})
          IN  IF ~colon.matched
              THEN Parser_construct_error(TokenExpected(":"), colon.cur)
              ELSE Go(colon.cur,
                      Append(Callers, [f |-> "ternary", let |-> "alternative",
                                       expr |-> Frame.expr, then |-> pc.v]),
                      At("logic_or"))
    \* lines 261-270
    \/ /\ Binds("ternary", "alternative")
       /\ Go(cursor, Callers,
             Returning(Conditional(Frame.expr, Frame.then, pc.v)))

\* logic_or, logic_and, equality, comparison, term and factor are one
\* function written six times, each with its own operator tokens and its
\* own function for the operands.
\* `let mut expr = self.operand()?`
Parser_binary(function, operand) ==
    /\ pc = At(function)
    /\ Go(cursor, Append(calls, [f |-> function, let |-> "expr"]),
          At(operand))

\* a level that goes on to its left operand without the check
Parser_binary_unchecked(function, token_types, operand) ==
    Parser_binary(function, operand)

\* `if self.check_many(token_types) { return Err(MissingLeftHandOperand) }`
\* before the left operand
Parser_binary_checked(function, token_types, operand) ==
    /\ pc = At(function)
    /\ IF Parser_check_many(tokens, cursor, token_types)
       THEN Parser_construct_error(MissingLeftHandOperand, cursor)
       ELSE Go(cursor, Append(calls, [f |-> function, let |-> "expr"]),
               At(operand))

\* a level whose right operand is a whole logic-or expression
Parser_binary_while_loose(function, token_types, operand) ==
    /\ Binds(function, "expr")
    /\ LET op == Parser_match_token(tokens, cursor, token_types)
           operator == Operator_try_from(Parser_previous(tokens, op.cur))
       IN  IF op.matched
           THEN Go(op.cur,
                   Append(Callers, [f |-> function, let |-> "right",
                                    expr |-> pc.v, operator |-> operator]),
                   At("logic_or"))
           ELSE Go(cursor, Callers, Returning(pc.v))

\* `while self.match_token(token_types) { let operator = ...;
\*  let right = self.operand()?; ... }  Ok(expr)`: the loop test with expr
\* bound
Parser_binary_while(function, token_types, operand) ==
    /\ Binds(function, "expr")
    /\ LET op == Parser_match_token(tokens, cursor, token_types)
           operator == Operator_try_from(Parser_previous(tokens, op.cur))
       IN  IF op.matched
           THEN Go(op.cur,
                   Append(Callers, [f |-> function, let |-> "right",
                                    expr |-> pc.v, operator |-> operator]),
                   At(operand))
           ELSE Go(cursor, Callers, Returning(pc.v))

\* `expr = Expression::Binary { left: expr, operator, right }` with right
\* bound, and back to the loop test
Parser_binary_right(function) ==
    /\ Binds(function, "right")
    /\ Go(cursor, Append(Callers, [f |-> function, let |-> "expr"]),
          Returning(Binary(Frame.expr, Frame.operator, pc.v)))

\* Parser::logic_or
Parser_logic_or ==
    \/ Parser_binary("logic_or", "logic_and")
    \/ Parser_binary_while("logic_or", {"Or"}, "logic_and")
    \/ Parser_binary_right("logic_or")

\* Parser::logic_and
Parser_logic_and ==
    \/ Parser_binary("logic_and", "equality")
    \/ Parser_binary_while("logic_and", {"And"}, "equality")
    \/ Parser_binary_right("logic_and")

\* Parser::equality
Parser_equality ==
    \/ Parser_binary_checked("equality", {"BangEqual", "EqualEqual"},
                             "comparison")
    \/ Parser_binary_while("equality", {"BangEqual", "EqualEqual"},
                           "comparison")
    \/ Parser_binary_right("equality")

\* Parser::comparison
Parser_comparison ==
    \/ Parser_binary_checked("comparison", {"Greater", "GreaterEqual", "Less", "LessEqual"},
                             "term")
    \/ Parser_binary_while("comparison", {"Greater", "GreaterEqual", "Less", "LessEqual"},
                           "term")
    \/ Parser_binary_right("comparison")

\* Parser::term
Parser_term ==
    \/ Parser_binary_checked("term", {"Plus", "Minus"}, "factor")
    \/ Parser_binary_while("term", {"Plus", "Minus"}, "factor")
    \/ Parser_binary_right("term")

\* Parser::factor
Parser_factor ==
    \/ Parser_binary_checked("factor", {"Slash", "Star"}, "unary")
    \/ Parser_binary_while("factor", {"Slash", "Star"}, "unary")
    \/ Parser_binary_right("factor")

\* Parser::unary
Parser_unary ==
    \* lines 396-398 and 404
    \/ /\ pc = At("unary")
       /\ LET op == Parser_match_token(tokens, cursor, {"Bang", "Minus"})
              operator == Operator_try_from(Parser_previous(tokens, op.cur))
          IN  IF op.matched
              THEN Go(op.cur,
                      Append(calls, [f |-> "unary", let |-> "right",
                                     operator |-> operator]),
                      At("unary"))
              ELSE Go(cursor, calls, At("call"))
    \* lines 398-402
    \/ /\ Binds("unary", "right")
       /\ Go(cursor, Callers, Returning(Unary(Frame.operator, pc.v)))

\* Parser::call
Parser_call ==
    \* line 409
    \/ /\ pc = At("call")
       /\ Go(cursor, Append(calls, [f |-> "call", let |-> "expr"]),
             At("primary"))
    \* the loop test at line 411 with expr bound, and line 423
    \/ /\ Binds("call", "expr")
       /\ LET paren == Parser_match_token(tokens, cursor, {"LeftParen"})
          IN  IF paren.matched
              THEN Go(paren.cur,
                      Append(Callers, [f |-> "call", let |-> "arguments",
                                       expr |-> pc.v]),
                      At("arguments"))
              ELSE Go(cursor, Callers, Returning(pc.v))
    \* lines 412-420, and back to the loop test
    \/ /\ Binds("call", "arguments")
       /\ LET paren == Parser_match_token(tokens, cursor, {"RightParen"})
          IN  IF ~paren.matched
              THEN Parser_construct_error(TokenExpected(")"), paren.cur)
              ELSE Go(paren.cur, Append(Callers, [f |-> "call", let |-> "expr"]),
                      Returning(FunctionInvokation(Frame.expr, pc.v)))

\* Parser::arguments
Parser_arguments ==
    \* line 427.  `from` is the cursor at which the current
    \* iteration of the loop began.
    \/ /\ pc = At("arguments")
       /\ Go(cursor,
             Append(calls, [f |-> "arguments", let |-> "expr",
                            arguments |-> <<>>, from |-> cursor]),
             At("arguments.while"))
    \* the loop test at line 429 and line 434
    \/ /\ pc = At("arguments.while")
       /\ IF ~Parser_is_at_end(tokens, cursor)
             /\ ~Parser_check(tokens, cursor, "RightParen")
          THEN Go(cursor, Append(Callers, [Frame EXCEPT !.from = cursor]),
                  At("expression"))
          ELSE Go(cursor, Callers, Returning(Frame.arguments))
    \* lines 430-431
    \/ /\ Binds("arguments", "expr")
       /\ Go(cursor,
             Append(Callers, [Frame EXCEPT !.arguments = Append(@, pc.v)]),
             At("arguments.while"))

\* Parser::primary
Parser_primary ==
    \* up to the call of expression at line 476, and line 483
    \/ /\ pc = At("primary")
       /\ LET match(token_type) ==
                  Parser_match_token(tokens, cursor, {token_type}).matched
              advanced == Parser_advance_by(cursor, 1)
              previous == Parser_previous(tokens, advanced)
              Ok_(expression) == Go(advanced, calls, Returning(expression))
          IN  IF match("False") THEN Ok_(Literal(LitBoolean(FALSE)))
              ELSE IF match("True") THEN Ok_(Literal(LitBoolean(TRUE)))
              ELSE IF match("Nil") THEN Ok_(Literal(LitNil))
              ELSE IF match("Number")
              THEN Ok_(Literal([lit |-> "Number", f |-> previous.number]))
              ELSE IF match("String")
              THEN Ok_(Literal(LitString(previous.string)))
              ELSE IF match("Identifier") THEN Ok_(Identifier(previous.lexeme))
              ELSE IF match("LeftParen")
              THEN Go(advanced, Append(calls, [f |-> "primary", let |-> "expr"]),
                      At("expression"))
              ELSE Parser_construct_error(ExpressionExprected, cursor)
    \* lines 476-481
    \/ /\ Binds("primary", "expr")
       /\ LET paren == Parser_match_token(tokens, cursor, {"RightParen"})
          IN  IF ~paren.matched
              THEN Parser_construct_error(TokenExpected(")"), paren.cur)
              ELSE Go(paren.cur, Callers, Returning(Grouping(pc.v)))

(***************************************************************************)
(* The token vectors parsed.  Each ends with the EOF token the scanner     *)
(* appends.                                                                *)
(***************************************************************************)
\* Largest number of tokens before EOF of the generated token vectors
MaxTokens == 3

\* Largest number of prefix operators of the generated unary expressions
MaxPrefix == 3

Lexeme(token_type) ==
    CASE token_type = "LeftParen" -> "("
      [] token_type = "RightParen" -> ")"
      [] token_type = "LeftBrace" -> "{"
      [] token_type = "RightBrace" -> "}"
      [] token_type = "Semicolon" -> ";"
      [] token_type = "Comma" -> ","
      [] token_type = "Question" -> "?"
      [] token_type = "Colon" -> ":"
      [] token_type = "Minus" -> "-"
      [] token_type = "Plus" -> "+"
      [] token_type = "Star" -> "*"
      [] token_type = "Slash" -> "/"
      [] token_type = "Bang" -> "!"
      [] token_type = "BangEqual" -> "!="
      [] token_type = "Equal" -> "="
      [] token_type = "EqualEqual" -> "=="
      [] token_type = "Greater" -> ">"
      [] token_type = "GreaterEqual" -> ">="
      [] token_type = "Less" -> "<"
      [] token_type = "LessEqual" -> "<="
      [] token_type = "And" -> "and"
      [] token_type = "Or" -> "or"
      [] token_type = "Var" -> "var"
      [] token_type = "Fun" -> "fun"
      [] token_type = "Print" -> "print"
      [] token_type = "If" -> "if"
      [] token_type = "Else" -> "else"
      [] token_type = "While" -> "while"
      [] token_type = "Break" -> "break"
      [] token_type = "Continue" -> "continue"
      [] token_type = "Return" -> "return"
      [] token_type = "True" -> "true"
      [] token_type = "False" -> "false"
      [] token_type = "Nil" -> "nil"

\* The token of a punctuation mark, operator or keyword
T(token_type) == Token(token_type, Lexeme(token_type))

IdentifierNames == {"a", "b", "c", "f", "x"}

\* The token vector of a source text given word by word: a word is an
\* identifier, a number, or the type of a punctuation mark, operator or keyword
Tokens(words) ==
    [k \in 1..(Len(words) + 1) |->
        IF k = Len(words) + 1 THEN EOF
        ELSE IF words[k] \in IdentifierNames THEN IdentifierToken(words[k])
        ELSE IF words[k] \in {"1", "2", "3", "5"}
        THEN NumberToken(CHOOSE n \in 1..5 : NatStr(n) = words[k], 1)
        ELSE T(words[k])]

\* Every vector of at most MaxTokens of these tokens
Alphabet ==
    {"1", "x", "Minus", "Bang", "Star", "EqualEqual", "LeftParen",
     "RightParen", "LeftBrace", "RightBrace", "Semicolon", "Fun"}

ShortVectors ==
    UNION { {Tokens(words) : words \in [1..n -> Alphabet]} : n \in 0..MaxTokens }

\* k prefix operators, each `!` or `-`, then x, as an expression statement
PrefixWords(prefix) == prefix \o <<"x", "Semicolon">>

Prefixes == UNION { [1..k -> {"Bang", "Minus"}] : k \in 1..MaxPrefix }

UnaryVectors == { Tokens(PrefixWords(prefix)) : prefix \in Prefixes }

\* print 1 * P x; for the same prefixes P
UnaryOperandVectors ==
    { Tokens(<<"Print", "1", "Star">> \o PrefixWords(prefix)) :
         prefix \in Prefixes }

BinaryTokenTypes ==
    {"BangEqual", "EqualEqual", "Greater", "GreaterEqual", "Less", "LessEqual",
     "Plus", "Minus", "Slash", "Star"}

\* OP 5;   print OP 5;   (OP 5);   f(OP 5);   1 + OP 5;   1 * OP 5;
\* 1 == OP 5;   1 < OP 5;   for every binary operator OP
LeadingOperatorVectors ==
    UNION { { Tokens(<<op, "5", "Semicolon">>),
              Tokens(<<"Print", op, "5", "Semicolon">>),
              Tokens(<<"LeftParen", op, "5", "RightParen", "Semicolon">>),
              Tokens(<<"f", "LeftParen", op, "5", "RightParen", "Semicolon">>),
              Tokens(<<"1", "Plus", op, "5", "Semicolon">>),
              Tokens(<<"1", "Star", op, "5", "Semicolon">>),
              Tokens(<<"1", "EqualEqual", op, "5", "Semicolon">>),
              Tokens(<<"1", "Less", op, "5", "Semicolon">>) } :
            op \in BinaryTokenTypes }

\* a OP1 b OP2 c;   for every pair of binary operators
FoldVectors ==
    { Tokens(<<"a", op1, "b", op2, "c", "Semicolon">>) :
         op1 \in BinaryTokenTypes, op2 \in BinaryTokenTypes }

\* return 1;
ReturnOne == Tokens(<<"Return", "1", "Semicolon">>)

\* return 1
ReturnNoSemicolon == Tokens(<<"Return", "1">>)

\* fun f() { return x; }
ReturnInFunction ==
    Tokens(<<"Fun", "f", "LeftParen", "RightParen", "LeftBrace",
             "Return", "x", "Semicolon", "RightBrace">>)

\* while true { break; continue; }
BreakAndContinue ==
    Tokens(<<"While", "True", "LeftBrace", "Break", "Semicolon",
             "Continue", "Semicolon", "RightBrace">>)

\* break   and   continue
BreakNoSemicolon == Tokens(<<"Break">>)
ContinueNoSemicolon == Tokens(<<"Continue">>)

\* fun f(a b) { print a - b; } f(3 1)(2); var x = f;
DeclareAndCall ==
    Tokens(<<"Fun", "f", "LeftParen", "a", "b", "RightParen", "LeftBrace",
             "Print", "a", "Minus", "b", "Semicolon", "RightBrace",
             "f", "LeftParen", "3", "1", "RightParen",
             "LeftParen", "2", "RightParen", "Semicolon",
             "Var", "x", "Equal", "f", "Semicolon">>)

\* if x { } else if !x { a = b = 1; } else { { print x ? 1 : 2; } }
IfElseIf ==
    Tokens(<<"If", "x", "LeftBrace", "RightBrace", "Else", "If", "Bang", "x",
             "LeftBrace", "a", "Equal", "b", "Equal", "1", "Semicolon",
             "RightBrace", "Else", "LeftBrace", "LeftBrace", "Print", "x",
             "Question", "1", "Colon", "2", "Semicolon", "RightBrace",
             "RightBrace">>)

\* print 1; print; print 2 print 3;
ErrorInTheMiddle ==
    Tokens(<<"Print", "1", "Semicolon", "Print", "Semicolon",
             "Print", "2", "Print", "3", "Semicolon">>)

\* Texts that end in the middle of a block, a parameter list, an argument
\* list, a declaration or an expression:
\* { print 1;   fun f(a   fun f(a 1)   f(1   f(1;   var x   var = 1;
\* fun (   fun f {   fun f() print   if x print   while x;   x ? 1;   1 = 2;
\* (1;   x or;   x and
Unfinished ==
    { Tokens(<<"LeftBrace", "Print", "1", "Semicolon">>),
      Tokens(<<"Fun", "f", "LeftParen", "a">>),
      Tokens(<<"Fun", "f", "LeftParen", "a", "1", "RightParen">>),
      Tokens(<<"f", "LeftParen", "1">>),
      Tokens(<<"f", "LeftParen", "1", "Semicolon">>),
      Tokens(<<"Var", "x">>),
      Tokens(<<"Var", "Equal", "1", "Semicolon">>),
      Tokens(<<"Fun", "LeftParen">>),
      Tokens(<<"Fun", "f", "LeftBrace">>),
      Tokens(<<"Fun", "f", "LeftParen", "RightParen", "Print">>),
      Tokens(<<"If", "x", "Print">>),
      Tokens(<<"While", "x", "Semicolon">>),
      Tokens(<<"x", "Question", "1", "Semicolon">>),
      Tokens(<<"1", "Equal", "2", "Semicolon">>),
      Tokens(<<"LeftParen", "1", "Semicolon">>),
      Tokens(<<"x", "Or", "Semicolon">>),
      Tokens(<<"x", "And">>) }

\* The binary operator tokens by the function that matches them, in the
\* order in which the functions call each other
PrecedenceLevels ==
    << {"Or"}, {"And"}, {"BangEqual", "EqualEqual"},
       {"Greater", "GreaterEqual", "Less", "LessEqual"}, {"Plus", "Minus"},
       {"Slash", "Star"} >>

EveryBinaryTokenType == UNION { PrecedenceLevels[k] : k \in 1..6 }

\* a OP1 b OP2 c;   for every pair of binary operators, `or` and `and` included
MixedVectors ==
    { Tokens(<<"a", op1, "b", op2, "c", "Semicolon">>) :
         op1 \in EveryBinaryTokenType, op2 \in EveryBinaryTokenType }

\* 1 + 2 * 3;
OnePlusTwoTimesThree == Tokens(<<"1", "Plus", "2", "Star", "3", "Semicolon">>)

\* f()();
CallOfCall ==
    Tokens(<<"f", "LeftParen", "RightParen", "LeftParen", "RightParen",
             "Semicolon">>)

\* a = b ? 1 : 2;
AssignConditional ==
    Tokens(<<"a", "Equal", "b", "Question", "1", "Colon", "2", "Semicolon">>)

\* a or b ? 1 or 2 : 3 or 5;
ConditionalOfOr ==
    Tokens(<<"a", "Or", "b", "Question", "1", "Or", "2", "Colon", "3", "Or",
             "5", "Semicolon">>)

\* !a * b;   and   a * !b;
NotTimes == Tokens(<<"Bang", "a", "Star", "b", "Semicolon">>)
TimesNot == Tokens(<<"a", "Star", "Bang", "b", "Semicolon">>)

\* !f();
NotCall == Tokens(<<"Bang", "f", "LeftParen", "RightParen", "Semicolon">>)

PrecedenceVectors ==
    MixedVectors \cup {OnePlusTwoTimesThree, CallOfCall, AssignConditional,
                       ConditionalOfOr, NotTimes, TimesNot, NotCall}

\* fun f(a, b) { }   and   fun f(, a) { }
CommaInParameters ==
    Tokens(<<"Fun", "f", "LeftParen", "a", "Comma", "b", "RightParen",
             "LeftBrace", "RightBrace">>)
CommaBeforeParameters ==
    Tokens(<<"Fun", "f", "LeftParen", "Comma", "a", "RightParen",
             "LeftBrace", "RightBrace">>)

\* f(1, 2);   and   f(, 1);
CommaInArguments ==
    Tokens(<<"f", "LeftParen", "1", "Comma", "2", "RightParen", "Semicolon">>)
CommaBeforeArguments ==
    Tokens(<<"f", "LeftParen", "Comma", "1", "RightParen", "Semicolon">>)

\* fun f(   and   fun f(a b
OpenParameters ==
    { Tokens(<<"Fun", "f", "LeftParen">>),
      Tokens(<<"Fun", "f", "LeftParen", "a", "b">>) }

\* f(   and   f(1 2   and   print f(a)(1 2
OpenArguments ==
    { Tokens(<<"f", "LeftParen">>),
      Tokens(<<"f", "LeftParen", "1", "2">>),
      Tokens(<<"Print", "f", "LeftParen", "a", "RightParen", "LeftParen", "1",
               "2">>) }

\* fun f(a b c) { } f(1 2 3);
ListsOfThree ==
    Tokens(<<"Fun", "f", "LeftParen", "a", "b", "c", "RightParen", "LeftBrace",
             "RightBrace", "f", "LeftParen", "1", "2", "3", "RightParen",
             "Semicolon">>)

ListVectors ==
    {CommaInParameters, CommaBeforeParameters, CommaInArguments,
     CommaBeforeArguments, ListsOfThree}
        \cup OpenParameters \cup OpenArguments

TokenVectors ==
    ShortVectors \cup UnaryVectors \cup UnaryOperandVectors
        \cup LeadingOperatorVectors \cup FoldVectors \cup Unfinished
        \cup PrecedenceVectors
        \cup ListVectors
        \cup {ReturnOne, ReturnNoSemicolon, ReturnInFunction, BreakAndContinue,
              BreakNoSemicolon, ContinueNoSemicolon, DeclareAndCall, IfElseIf,
              ErrorInTheMiddle}

\* Parser::new(tokens): the cursor at 0; the runtime is not started
ParserInit ==
    /\ tokens \in TokenVectors
    /\ cursor = 0
    /\ calls = <<>>
    /\ pc = At("run")
    /\ outcome = Parsing
    /\ program = <<>>
    /\ envs = <<Environment_new>>
    /\ environment = 1
    /\ stack = <<>>
    /\ ctrl = [m |-> "idle"]
    /\ output = <<>>
    /\ result = Running

\* One step of the parser
ParserNext ==
    \/ Parser_run
    \/ Parser_program
    \/ Parser_declaration
    \/ Parser_fun_decl
    \/ Parser_parameters
    \/ Parser_var_decl
    \/ Parser_statement
    \/ Parser_break_stmt
    \/ Parser_continue_stmt
    \/ Parser_while_stmt
    \/ Parser_if_stmt
    \/ Parser_block
    \/ Parser_expr_stmt
    \/ Parser_print_stmt
    \/ Parser_expression
    \/ Parser_assignment
    \/ Parser_ternary
    \/ Parser_logic_or
    \/ Parser_logic_and
    \/ Parser_equality
    \/ Parser_comparison
    \/ Parser_term
    \/ Parser_factor
    \/ Parser_unary
    \/ Parser_call
    \/ Parser_arguments
    \/ Parser_primary

ParserSpec == ParserInit /\ [][ParserNext]_vars

\* Parser::run is one call: once entered it runs until it returns.
ParserFair == ParserSpec /\ WF_vars(ParserNext)

(***************************************************************************)
(* Properties of the parser.                                               *)
(***************************************************************************)
ParserDone == outcome.state \in {"Ok", "Err"}

\* The cursor at the EOF token
AtEOF == Len(tokens) - 1

ParserErrorKinds ==
    {TokenExpected(c) : c \in {"(", ")", "{", "}", ";", ":", "="}}
        \cup {ExpressionExprected, MissingLeftHandOperand, IdentifierExpected}

\* The call made by the body of the loop of program, block or arguments has
\* returned Ok.
IterationDone ==
    \/ Binds("program", "declaration")
    \/ Binds("block", "declaration")
    \/ Binds("arguments", "expr")

C12_Step ==
    \* no step once run has returned; the cursor never moves back
    /\ pc # Returned
    /\ tokens' = tokens
    /\ cursor' >= cursor
    \* an iteration of the loop of parameters that does not return an error
    \* consumes a token
    /\ (pc = At("parameters.while") /\ pc' = pc) => cursor' > cursor
    \* the complete program: every token before EOF is consumed
    /\ (outcome'.state = "Ok")
          => /\ cursor = AtEOF
             /\ cursor' = cursor
             /\ calls = <<Frame>>
             /\ outcome' = ParseOk(Frame.statements)
    \* or one error and no statements, the cursor where the error was met
    /\ (outcome'.state = "Err")
          => /\ DOMAIN outcome' = {"state", "error"}
             /\ outcome'.error \in ParserErrorKinds
             /\ cursor' \in {cursor, cursor + 1}
    /\ (outcome' # Parsing) <=> (pc' = Returned)
    /\ (pc' = Returned) => calls' = <<>>

C12_Cursor ==
    /\ cursor \in 0..AtEOF
    /\ (outcome # Parsing) <=> (pc = Returned)
    \* an iteration of the loop of program, block or arguments that has not
    \* returned an error has consumed a token
    /\ IterationDone => cursor > Frame.from

\* C12: for every finite token vector ending with EOF, Parser.run terminates
\* and returns either the complete program (every token before EOF consumed)
\* or exactly one error, the first one met; after an error no further token
\* is consumed and no statements are returned.  The cursor never moves
\* backward, and every iteration of the loops of program, block, parameters
\* and arguments consumes at least one token or returns an error.
C12_ParserTerminates ==
    [][C12_Step]_vars /\ []C12_Cursor /\ <>ParserDone

\* `print 1; print; print 2 print 3;` has failed at the second statement,
\* with tokens left and the first statement dropped.
C12_Witness ==
    /\ tokens = ErrorInTheMiddle
    /\ outcome = ParseErr(ExpressionExprected)
    /\ cursor = 4
    /\ cursor < AtEOF
    /\ calls = <<>>

\* C13: the parser accepts `return EXPR;` and produces Return(EXPR) for it,
\* in the same way as it accepts `break;` and `continue;`; a missing `;`
\* after the expression yields TokenExpected(';').
C13_ReturnIsParsed ==
    ParserDone =>
        /\ (tokens = ReturnOne) => outcome = ParseOk(<<Return(Num(1))>>)
        /\ (tokens = ReturnInFunction)
              => outcome = ParseOk(<<FunctionDeclaration(
                                        "f", <<>>,
                                        Block(<<Return(Identifier("x"))>>))>>)
        /\ (tokens = ReturnNoSemicolon)
              => outcome = ParseErr(TokenExpected(";"))
        /\ (tokens = BreakAndContinue)
              => outcome = ParseOk(<<While(Literal(LitBoolean(TRUE)),
                                          Block(<<Break, Continue>>))>>)
        /\ (tokens \in {BreakNoSemicolon, ContinueNoSemicolon})
              => outcome = ParseErr(TokenExpected(";"))

\* The Unary nodes of the prefix operators, outermost first, around operand
RECURSIVE UnaryOf(_, _)
UnaryOf(prefix, operand) ==
    IF prefix = <<>> THEN operand
    ELSE Unary(Operator_try_from(T(Head(prefix))),
               UnaryOf(Tail(prefix), operand))

\* C14: unary operators stack: an expression made of k >= 1 prefix tokens,
\* each `!` or `-`, followed by a primary parses into k nested Unary nodes,
\* outermost first; so do `--x` and `!!x` as whole expressions.
C14_UnaryOperatorsStack ==
    \A prefix \in Prefixes :
        (tokens = Tokens(PrefixWords(prefix)) /\ ParserDone)
            => outcome = ParseOk(<<ExpressionStmt(
                                      UnaryOf(prefix, Identifier("x")))>>)

\* The binary operator tokens of the four checked levels
LevelOperators(function) ==
    CASE function = "equality" -> {"BangEqual", "EqualEqual"}
      [] function = "comparison" ->
            {"Greater", "GreaterEqual", "Less", "LessEqual"}
      [] function = "term" -> {"Plus", "Minus"}
      [] function = "factor" -> {"Slash", "Star"}

CheckedLevels == <<"equality", "comparison", "term", "factor">>

\* The level of a binary operator token: 1 for equality up to 4 for factor
LevelOf(token_type) ==
    CHOOSE k \in 1..4 : token_type \in LevelOperators(CheckedLevels[k])

\* A level is entered with one of its own operators as the next token.
AtLeadingOperator ==
    \E k \in 1..4 :
        /\ pc = At(CheckedLevels[k])
        /\ Parser_check_many(tokens, cursor, LevelOperators(CheckedLevels[k]))

C15_Step ==
    AtLeadingOperator
        => /\ outcome' = ParseErr(MissingLeftHandOperand)
           /\ cursor' = cursor

C15_Outcomes ==
    ParserDone =>
        /\ \A op \in BinaryTokenTypes :
              \* OP 5;   print OP 5;   (OP 5);   f(OP 5);
              /\ tokens \in
                    { Tokens(<<op, "5", "Semicolon">>),
                      Tokens(<<"Print", op, "5", "Semicolon">>),
                      Tokens(<<"LeftParen", op, "5", "RightParen",
                               "Semicolon">>),
                      Tokens(<<"f", "LeftParen", op, "5", "RightParen",
                               "Semicolon">>) }
                    => outcome = ParseErr(MissingLeftHandOperand)
              \* 1 OP1 OP 5; where the right operand of OP1 is parsed at
              \* the level of OP or above it
              /\ \A op1 \in {"EqualEqual", "Less", "Plus", "Star"} :
                    (tokens = Tokens(<<"1", op1, op, "5", "Semicolon">>)
                        /\ LevelOf(op) > LevelOf(op1))
                        => outcome = ParseErr(MissingLeftHandOperand)
        \* a OP1 b OP2 c; with both operators of one level
        /\ \A op1, op2 \in BinaryTokenTypes :
              (tokens = Tokens(<<"a", op1, "b", op2, "c", "Semicolon">>)
                  /\ LevelOf(op1) = LevelOf(op2))
                  => outcome = ParseOk(<<ExpressionStmt(
                        Binary(Binary(Identifier("a"),
                                      Operator_try_from(T(op1)),
                                      Identifier("b")),
                               Operator_try_from(T(op2)),
                               Identifier("c")))>>)

\* C15: when an expression is parsed at the equality, comparison, term or
\* factor level and the next token is a binary operator of that level with
\* no operand before it, the parse fails with MissingLeftHandOperand, not
\* with ExpressionExprected; otherwise the operators of one level fold to
\* the left: `a - b - c` is Binary(Binary(a, -, b), -, c).
C15_LeadingOperatorAndLeftFold == [][C15_Step]_vars /\ []C15_Outcomes

\* `print * 5;` has failed at the `*`.
C15_Witness ==
    /\ tokens = Tokens(<<"Print", "Star", "5", "Semicolon">>)
    /\ outcome = ParseErr(MissingLeftHandOperand)
    /\ cursor = 1

(***************************************************************************)
(* main: the tokens of the text are parsed and, when Parser::run returns   *)
(* Ok(tree), a new Runtime runs the tree.  A parser error ends the process *)
(* before the runtime is created.                                          *)
(***************************************************************************)
main ==
    /\ pc = Returned
    /\ outcome.state = "Ok"
    /\ ctrl.m = "idle"
    /\ program' = outcome.statements
    /\ ctrl' = [m |-> "new"]
    /\ UNCHANGED <<parser, envs, environment, stack, output, result>>

\* fun f(a) { print a; } var x = 1;
\* while x < 3 { x = x + 1; if x == 2 { continue; } else { break; } }
\* f(x ? 1 : 2); print !(x or x and x); print 2 * -x;
EveryForm ==
    Tokens(<<"Fun", "f", "LeftParen", "a", "RightParen", "LeftBrace",
             "Print", "a", "Semicolon", "RightBrace",
             "Var", "x", "Equal", "1", "Semicolon",
             "While", "x", "Less", "3", "LeftBrace",
             "x", "Equal", "x", "Plus", "1", "Semicolon",
             "If", "x", "EqualEqual", "2", "LeftBrace", "Continue", "Semicolon",
             "RightBrace", "Else", "LeftBrace", "Break", "Semicolon",
             "RightBrace", "RightBrace",
             "f", "LeftParen", "x", "Question", "1", "Colon", "2", "RightParen",
             "Semicolon",
             "Print", "Bang", "LeftParen", "x", "Or", "x", "And", "x",
             "RightParen", "Semicolon",
             "Print", "2", "Star", "Minus", "x", "Semicolon">>)

\* var a = 1; var b = 2; a = b = 3; print a; print b;
AssignTwice ==
    Tokens(<<"Var", "a", "Equal", "1", "Semicolon",
             "Var", "b", "Equal", "2", "Semicolon",
             "a", "Equal", "b", "Equal", "3", "Semicolon",
             "Print", "a", "Semicolon", "Print", "b", "Semicolon">>)

\* var b = 1; c = b = 2; print b;
AssignToUndefined ==
    Tokens(<<"Var", "b", "Equal", "1", "Semicolon",
             "c", "Equal", "b", "Equal", "2", "Semicolon",
             "Print", "b", "Semicolon">>)

\* var a = 1; print a = 5; print a;
AssignPrinted ==
    Tokens(<<"Var", "a", "Equal", "1", "Semicolon",
             "Print", "a", "Equal", "5", "Semicolon",
             "Print", "a", "Semicolon">>)

Texts == {EveryForm, AssignTwice, AssignToUndefined, AssignPrinted}

\* The process starts with the tokens of its text.
MainInit ==
    /\ tokens \in Texts
    /\ cursor = 0
    /\ calls = <<>>
    /\ pc = At("run")
    /\ outcome = Parsing
    /\ program = <<>>
    /\ envs = <<Environment_new>>
    /\ environment = 1
    /\ stack = <<>>
    /\ ctrl = [m |-> "idle"]
    /\ output = <<>>
    /\ result = Running

\* One step of the process.  A tree made by Parser::run holds no
\* Statement::Return (Parser::statement has no branch that makes one), so
\* the two steps of the runtime for it are not among these.
MainNext ==
    \/ Parser_run \/ Parser_program \/ Parser_declaration \/ Parser_fun_decl
    \/ Parser_parameters \/ Parser_var_decl \/ Parser_statement
    \/ Parser_break_stmt \/ Parser_continue_stmt \/ Parser_while_stmt
    \/ Parser_if_stmt \/ Parser_block \/ Parser_expr_stmt \/ Parser_print_stmt
    \/ Parser_expression \/ Parser_assignment \/ Parser_ternary
    \/ Parser_logic_or \/ Parser_logic_and \/ Parser_equality
    \/ Parser_comparison \/ Parser_term \/ Parser_factor \/ Parser_unary
    \/ Parser_call \/ Parser_arguments \/ Parser_primary
    \/ main
    \/ run \/ run_return \/ _run \/ _run_signal
    \/ expr_stmt \/ expr_stmt_done
    \/ print_stmt \/ print_stmt_println
    \/ var_stmt \/ var_stmt_define
    \/ fun_stmt
    \/ block \/ block_restore
    \/ conditional_stmt \/ conditional_stmt_branch
    \/ loop_stmt \/ loop_stmt_condition \/ loop_stmt_signal
    \/ statement_break \/ statement_continue
    \/ literal \/ grouping \/ evaluate_identifier
    \/ evaluate_assignment \/ evaluate_assignment_assign
    \/ unary \/ unary_apply
    \/ binary \/ binary_left \/ binary_right
    \/ conditional \/ conditional_branch
    \/ function_invokation \/ function_invokation_callee
    \/ function_invokation_arguments \/ function_invokation_define
    \/ function_invokation_return

MainSpec == MainInit /\ [][MainNext]_vars

AtAssignment == ctrl.m = "evaluate" /\ ctrl.expr.e = "Assignment"

C24_Step ==
    /\ AtAssignment => (ctrl' = Evaluate(ctrl.expr.expression) /\ envs' = envs)
    /\ AtAssign =>
          LET near == Nearest(envs, Top.environment, Top.identifier)
          IN  IF near = 0
              THEN /\ result' = RunErr(VariableNotDefined(Top.identifier))
                   /\ envs' = envs
              ELSE /\ ctrl' = ReturnValue(Nil)
                   /\ stack' = Pop
                   /\ envs'[near].values[Top.identifier] = ctrl.value

C24_Texts ==
    /\ (tokens = AssignTwice /\ ParserDone)
          => /\ outcome.state = "Ok"
             /\ outcome.statements[3]
                   = ExpressionStmt(Assignment("a",
                         Assignment("b", Literal(LitNumber(3, 1)))))
    /\ (tokens = AssignTwice /\ Done)
          => /\ result = RunOk
             /\ output = <<"nil", "3">>
             /\ envs[1].values["a"] = Nil
             /\ envs[1].values["b"] = Integer(3)
    /\ (tokens = AssignToUndefined /\ Done)
          => /\ result = RunErr(VariableNotDefined("c"))
             /\ output = <<>>
             /\ envs[1].values["b"] = Integer(2)
    /\ (tokens = AssignPrinted /\ Done)
          => (result = RunOk /\ output = <<"nil", "5">>)

\* C24: an assignment evaluates its right-hand side first and then assigns,
\* and its own value is always Nil, never the assigned value.  Assignment is
\* right-associative: after `a = b = 3` with a and b defined, b holds 3 and a
\* holds Nil.  When no environment of the chain binds the target, the
\* assignment fails with VariableNotDefined after the right-hand side has
\* been evaluated.
C24_AssignmentIsNil == [][C24_Step]_vars /\ []C24_Texts

\* In `a = b = 3` the inner assignment is done and the outer one is about to
\* assign its value, Nil, to a.
C24_Witness ==
    /\ tokens = AssignTwice
    /\ AtAssign
    /\ Top.identifier = "a"
    /\ ctrl.value = Nil
    /\ envs[1].values["b"] = Integer(3)

\* The parsing functions of an expression, the loosest first
PrecedenceOrder ==
    <<"expression", "assignment", "ternary", "logic_or", "logic_and",
      "equality", "comparison", "term", "factor", "unary", "call", "primary">>

\* The place of a binary operator token in the order: 1 for `or` up to 6
\* for `*` and `/`
Precedence(token_type) ==
    CHOOSE k \in 1..6 : token_type \in PrecedenceLevels[k]

OperatorOf(token_type) == Operator_try_from(T(token_type))

\* A function enters the next function of the order for its first operand.
C25_Step ==
    \A k \in 1..(Len(PrecedenceOrder) - 1) :
        (pc = At(PrecedenceOrder[k]) /\ pc'.m = "at")
            => \/ pc' = At(PrecedenceOrder[k + 1])
               \/ PrecedenceOrder[k] = "unary" /\ pc' = At("unary")

C25_Outcomes ==
    ParserDone =>
        \* a OP1 b OP2 c; with the operators of two levels
        /\ \A op1, op2 \in EveryBinaryTokenType :
              (tokens = Tokens(<<"a", op1, "b", op2, "c", "Semicolon">>)
                  /\ Precedence(op1) # Precedence(op2))
                  => outcome = ParseOk(<<ExpressionStmt(
                        IF Precedence(op1) > Precedence(op2)
                        THEN Binary(Binary(Identifier("a"), OperatorOf(op1),
                                           Identifier("b")),
                                    OperatorOf(op2), Identifier("c"))
                        ELSE Binary(Identifier("a"), OperatorOf(op1),
                                    Binary(Identifier("b"), OperatorOf(op2),
                                           Identifier("c"))))>>)
        /\ tokens = OnePlusTwoTimesThree
              => outcome = ParseOk(<<ExpressionStmt(
                    Binary(Literal(LitNumber(1, 1)), "Addition",
                           Binary(Literal(LitNumber(2, 1)), "Multiplication",
                                  Literal(LitNumber(3, 1)))))>>)
        /\ tokens = CallOfCall
              => outcome = ParseOk(<<ExpressionStmt(
                    FunctionInvokation(
                        FunctionInvokation(Identifier("f"), <<>>), <<>>))>>)
        /\ tokens = AssignConditional
              => outcome = ParseOk(<<ExpressionStmt(
                    Assignment("a",
                        Conditional(Identifier("b"), Literal(LitNumber(1, 1)),
                                    Literal(LitNumber(2, 1)))))>>)
        /\ tokens = ConditionalOfOr
              => outcome = ParseOk(<<ExpressionStmt(
                    Conditional(
                        Binary(Identifier("a"), "Disjunction", Identifier("b")),
                        Binary(Literal(LitNumber(1, 1)), "Disjunction",
                               Literal(LitNumber(2, 1))),
                        Binary(Literal(LitNumber(3, 1)), "Disjunction",
                               Literal(LitNumber(5, 1)))))>>)
        /\ tokens = NotTimes
              => outcome = ParseOk(<<ExpressionStmt(
                    Binary(Unary("Negation", Identifier("a")),
                           "Multiplication", Identifier("b")))>>)
        /\ tokens = TimesNot
              => outcome = ParseOk(<<ExpressionStmt(
                    Binary(Identifier("a"), "Multiplication",
                           Unary("Negation", Identifier("b"))))>>)
        /\ tokens = NotCall
              => outcome = ParseOk(<<ExpressionStmt(
                    Unary("Negation",
                          FunctionInvokation(Identifier("f"), <<>>)))>>)

\* C25: the parser applies the precedence order assignment < conditional <
\* logic-or < logic-and < equality < comparison < term < factor < unary <
\* call < primary: of two operators of different levels the one of the
\* higher level binds tighter whatever their order in the text, so
\* `1 + 2 * 3` is Binary(1, +, Binary(2, *, 3)), `a or b and c` is
\* Binary(a, or, Binary(b, and, c)) and `f()()` is the invocation of the
\* invocation of f.
C25_PrecedenceOrder == [][C25_Step]_vars /\ []C25_Outcomes

\* `a or b and c;` is parsed: the `and` is the right operand of the `or`.
C25_Witness ==
    /\ tokens = Tokens(<<"a", "Or", "b", "And", "c", "Semicolon">>)
    /\ outcome = ParseOk(<<ExpressionStmt(
          Binary(Identifier("a"), "Disjunction",
                 Binary(Identifier("b"), "Conjunction", Identifier("c"))))>>)

\* The places of the commas in the text (the cursor counts from 0)
Commas == {k \in 0..AtEOF : tokens[k + 1].token_type = "Comma"}

\* The parser is at the head of the loop of a list and the next token is
\* neither `)` nor EOF.
AtParameter ==
    /\ pc = At("parameters.while")
    /\ ~Parser_is_at_end(tokens, cursor)
    /\ ~Parser_check(tokens, cursor, "RightParen")
AtArgumentOfList ==
    /\ pc = At("arguments.while")
    /\ ~Parser_is_at_end(tokens, cursor)
    /\ ~Parser_check(tokens, cursor, "RightParen")

C30_Step ==
    \* a parameter is one identifier, and the next one follows it directly
    /\ AtParameter
          => IF Parser_check(tokens, cursor, "Identifier")
             THEN cursor' = cursor + 1 /\ pc' = pc /\ outcome' = Parsing
             ELSE outcome' = ParseErr(IdentifierExpected) /\ cursor' = cursor
    \* an argument is one expression, and the next one follows it directly
    /\ AtArgumentOfList => (pc' = At("expression") /\ cursor' = cursor)
    /\ Binds("arguments", "expr") => (pc' = At("arguments.while") /\ cursor' = cursor)
    \* a list that ends at EOF
    /\ (pc = At("parameters.while") /\ Parser_is_at_end(tokens, cursor))
          => (outcome' = ParseErr(TokenExpected(")")) /\ cursor' = cursor)
    /\ (Binds("call", "arguments") /\ Parser_is_at_end(tokens, cursor))
          => (outcome' = ParseErr(TokenExpected(")")) /\ cursor' = cursor)

C30_Outcomes ==
    /\ \A k \in Commas : cursor <= k
    /\ ParserDone =>
          /\ tokens = CommaInParameters
                => (outcome = ParseErr(IdentifierExpected) /\ cursor = 4)
          /\ tokens = CommaBeforeParameters
                => (outcome = ParseErr(IdentifierExpected) /\ cursor = 3)
          /\ tokens = CommaInArguments
                => (outcome = ParseErr(ExpressionExprected) /\ cursor = 3)
          /\ tokens = CommaBeforeArguments
                => (outcome = ParseErr(ExpressionExprected) /\ cursor = 2)
          /\ tokens \in OpenParameters \cup OpenArguments
                => (outcome = ParseErr(TokenExpected(")")) /\ cursor = AtEOF)
          /\ tokens = ListsOfThree
                => outcome = ParseOk(
                      <<FunctionDeclaration("f", <<"a", "b", "c">>, Block(<<>>)),
                        ExpressionStmt(FunctionInvokation(Identifier("f"),
                            <<Literal(LitNumber(1, 1)), Literal(LitNumber(2, 1)),
                              Literal(LitNumber(3, 1))>>))>>)

\* C30: parameter lists and argument lists have no separator: the parser
\* reads identifiers (expressions) one after the other until `)` and never
\* consumes a comma.  A comma in a parameter list makes the parse fail with
\* IdentifierExpected and a comma in an argument list with the parser's
\* ExpressionExprected; a list that reaches EOF without `)` fails with
\* TokenExpected(')').
C30_ListsHaveNoSeparator == [][C30_Step]_vars /\ []C30_Outcomes

\* `f(1, 2);` has failed at the comma.
C30_Witness ==
    /\ tokens = CommaInArguments
    /\ outcome = ParseErr(ExpressionExprected)
    /\ cursor = 3

====
